---- MODULE Spec2Model ----
(***************************************************************************)
(* Magic Mirror: the Syncer (src/src/syncer.ts) and the webhook receiver   *)
(* (src/src/web.ts) as two processes that share the SQLite store           *)
(* (db.ts, src/unnamed/part_009) and talk to GitHub.  Every await of the   *)
(* code that reads or writes the store or GitHub is one step, so the two   *)
(* processes interleave exactly where the code can be suspended.           *)
(*                                                                         *)
(* The store's upstream_authors column is left out: syncer.ts and web.ts   *)
(* never set or read it.                                                   *)
(***************************************************************************)
EXTENDS Integers, Sequences, FiniteSets, TLC

\* ---------------------------------------------------------------- bounds
\* Upstream pull-request numbers are 1..MaxUpstreamPR.
MaxUpstreamPR == 2
\* Issue and pull-request numbers of the fork repository are 1..MaxNumber.
MaxNumber == 3

\* ------------------------------------------------------- configuration
ForkRepo == "stolostron/config-policy-controller"
UpstreamRepo == "open-cluster-management-io/config-policy-controller"

\* The branch mappings of the configuration, in the order run() visits
\* them: Object.entries(mapping.branchMappings).sort() sorts by upstream
\* branch.
BranchMappings ==
  << [branch |-> "release-2.5", upstreamBranch |-> "main"],
     [branch |-> "release-2.4", upstreamBranch |-> "release-0.6"] >>

ForkBranches == {BranchMappings[i].branch : i \in 1..Len(BranchMappings)}
UpstreamBranches ==
  {BranchMappings[i].upstreamBranch : i \in 1..Len(BranchMappings)}

UpstreamPRs == 1..MaxUpstreamPR
Numbers == 1..MaxNumber

\* A null pr_id / github_issue (GitHub numbers start at 1).
NULL == 0
\* getLastHandledPR's null: no last_handled_prs row (0 is a valid cursor).
NoCursor == -1
NotMerged == ""

Blocked == "Blocked"
Created == "Created"

VARIABLES
  pending_prs,        \* the pending_prs table: a set of rows
  last_handled_prs,   \* the last_handled_prs table: a set of rows
  upstream,           \* upstream PR number -> base branch it was merged into
  fork,               \* fork repo number -> the issue or PR with that number
  checks,             \* fork PR number -> check name -> reported result
  required,           \* fork branch -> required check names (protection)
  config,             \* the branch mappings the Syncer is configured with
  events,             \* webhook events sent by GitHub, not yet received
  syncer,             \* the Syncer process: position and local variables
  reactor             \* the webhook receiver: position and local variables

vars == <<pending_prs, last_handled_prs, upstream, fork, checks, required,
          config, events, syncer, reactor>>

store == <<pending_prs, last_handled_prs>>
host == <<upstream, fork, checks, required, config, events>>

\* The tuples of the configuration and the check names CI reports.
TupleList == config
Tuples == {TupleList[i] : i \in 1..Len(TupleList)}
CheckNames == DOMAIN checks[1]

\* ------------------------------------------------------------- helpers
Last(s) == s[Len(s)]

Max(S) == CHOOSE m \in S : \A x \in S : x <= m

RECURSIVE SortDesc(_)
SortDesc(S) == IF S = {} THEN <<>> ELSE <<Max(S)>> \o SortDesc(S \ {Max(S)})

RECURSIVE SortAsc(_)
SortAsc(S) == IF S = {} THEN <<>> ELSE SortAsc(S \ {Max(S)}) \o <<Max(S)>>

SeqEq(a, b) == Len(a) = Len(b) /\ \A i \in 1..Len(a) : a[i] = b[i]

\* ------------------------------------------------------------ the store
Key(r) == <<r.repo, r.upstreamRepo, r.branch>>
TupleKey(t) == <<ForkRepo, UpstreamRepo, t.branch>>

\* idx_pending_prs_github: UNIQUE (repo_id, pr_id, github_issue); SQLite
\* treats NULLs as distinct, so only rows with both columns set can collide.
GithubIndexConflict(table, row) ==
  \E r \in table :
    /\ Key(r) # Key(row)
    /\ r.repo = row.repo
    /\ r.prID # NULL /\ r.prID = row.prID
    /\ r.githubIssue # NULL /\ r.githubIssue = row.githubIssue

\* A plain INSERT: no ON CONFLICT clause, no unique index on the tuple.
setPendingPR_InsertOnly(table, row) == table \cup {row}

\* INSERT ... ON CONFLICT(repo_id, upstream_repo_id, branch) DO UPDATE SET ...
setPendingPR(table, row) ==
  {r \in table : Key(r) # Key(row)} \cup {row}

\* DELETE FROM pending_prs WHERE repo_id=?: the branch is not compared.
deletePendingPR_WholeRepo(table, row) == {r \in table : r.repo # row.repo}

\* A DELETE that removes nothing.
deletePendingPR_Keeps(table, row) == table

\* DELETE FROM pending_prs WHERE repo_id=? AND branch=? AND upstream_repo_id=?
deletePendingPR(table, row) == {r \in table : Key(r) # Key(row)}

getPendingPR(t) == {r \in pending_prs : Key(r) = TupleKey(t)}

getPendingPRByIssue(repo, issueID) ==
  {r \in pending_prs : r.repo = repo /\ r.githubIssue = issueID}

getPendingPRByPRID(repo, prID) ==
  {r \in pending_prs : r.repo = repo /\ r.prID = prID}

\* INSERT ... ON CONFLICT(repo_id, upstream_repo_id, branch) DO UPDATE SET
\* upstream_pr_id=excluded.upstream_pr_id
setLastHandledPR(table, key, upstreamPRID) ==
  {r \in table : Key(r) # key}
    \cup {[repo |-> key[1], upstreamRepo |-> key[2], branch |-> key[3],
           upstreamPRID |-> upstreamPRID]}

getLastHandledPR(t) ==
  LET rows == {r \in last_handled_prs : Key(r) = TupleKey(t)}
  IN IF rows = {} THEN NoCursor ELSE (CHOOSE r \in rows : TRUE).upstreamPRID

\* ------------------------------------------------------------- GitHub
NoEntry == [kind |-> "none", state |-> "", base |-> "", ids |-> <<>>]

UsedNumbers == {n \in Numbers : fork[n].kind # "none"}
\* The number GitHub gives the next issue or pull request of the fork repo.
NextNumber == Cardinality(UsedNumbers) + 1

IsOpenPR(n) == n \in Numbers /\ fork[n].kind = "pr" /\ fork[n].state = "open"

Event(type, prs, number, name, success) ==
  [type |-> type, prs |-> prs, number |-> number, name |-> name,
   success |-> success]

PRClosedEvent(n) == Event("pull_request.closed", <<>>, n, "", FALSE)
IssueClosedEvent(n) == Event("issues.closed", <<>>, n, "", FALSE)

MergedUpstream == {id \in UpstreamPRs : upstream[id] # NotMerged}

\* search.issuesAndPullRequests(is:pr is:merged, sort created desc)
MergedFeed == SortDesc(MergedUpstream)

getLatestPRID == IF MergedFeed = <<>> THEN NULL ELSE Head(MergedFeed)

RECURSIVE TakeNewer(_, _)
TakeNewer(feed, lastHandledPR) ==
  IF feed = <<>> \/ Head(feed) <= lastHandledPR
  THEN {}
  ELSE {Head(feed)} \cup TakeNewer(Tail(feed), lastHandledPR)

\* The ids in the order of the search feed, newest first, without the sort.
getMergedPRIDs_Unsorted(lastHandledPR) ==
  SortDesc(TakeNewer(MergedFeed, lastHandledPR))

getMergedPRIDs(lastHandledPR) == SortAsc(TakeNewer(MergedFeed, lastHandledPR))

\* getBranchToPRIDs(prIDs)[branch]
getBranchToPRIDs(prIDs, branch) ==
  SelectSeq(prIDs, LAMBDA id : upstream[id] = branch)

\* PATCH pulls/<n> {state: "closed"}: closes an open PR, which makes GitHub
\* send pull_request.closed; a closed or merged PR stays as it is.
ClosePullRequest(n) ==
  IF IsOpenPR(n)
  THEN /\ fork' = [fork EXCEPT ![n].state = "closed"]
       /\ events' = events \cup {PRClosedEvent(n)}
  ELSE UNCHANGED <<fork, events>>

Row(t, ids, action, prID, githubIssue) ==
  [repo |-> ForkRepo, upstreamRepo |-> UpstreamRepo, branch |-> t.branch,
   upstreamPRIDs |-> ids, action |-> action, prID |-> prID,
   githubIssue |-> githubIssue]

\* ---------------------------------------------------------------- Init
SyncerIdle ==
  [pc |-> "idle", queue |-> <<>>, tuple |-> BranchMappings[1],
   pendingPR |-> {},
   lastHandledPR |-> NoCursor, prIDs |-> <<>>, newPR |-> NULL,
   issueID |-> NULL]

ReactorIdle ==
  [pc |-> "idle", event |-> IssueClosedEvent(NULL), idx |-> 1,
   pendingPR |-> {}, issueID |-> NULL]

\* Nothing has been synced yet.  The configuration has the mappings
\* `tuples`, CI reports the checks `names`, and the protection of the
\* first mapped fork branch requires one of the sets `requiredSets`.
InitWith(tuples, names, requiredSets) ==
  /\ pending_prs = {}
  /\ last_handled_prs = {}
  /\ upstream = [id \in UpstreamPRs |-> NotMerged]
  /\ fork = [n \in Numbers |-> NoEntry]
  /\ checks = [n \in Numbers |-> [c \in names |-> "none"]]
  /\ required \in {[b \in ForkBranches |->
                      IF b = tuples[1].branch THEN rc ELSE {}] :
                   rc \in requiredSets}
  /\ config = tuples
  /\ events = {}
  /\ syncer = SyncerIdle
  /\ reactor = ReactorIdle

\* One mapping (main -> release-2.5); the branch requires "dco" or nothing.
Init == InitWith(SubSeq(BranchMappings, 1, 1), {"dco"}, {{}, {"dco"}})

\* ------------------------------------------------------- environment
\* An upstream pull request is merged into a branch of the upstream repo.
\* Numbers are given at creation, so merges may come in any order.
UpstreamMerge ==
  \E id \in UpstreamPRs, b \in UpstreamBranches :
    /\ upstream[id] = NotMerged
    /\ upstream' = [upstream EXCEPT ![id] = b]
    /\ UNCHANGED <<store, fork, checks, required, config, events, syncer, reactor>>

\* A check run or commit status of an open fork PR completes; GitHub sends
\* check_run.completed (or status) with the PR in its list.
CheckCompletes ==
  \E n \in Numbers, c \in CheckNames, ok \in BOOLEAN :
    /\ IsOpenPR(n)
    /\ checks[n][c] = "none"
    /\ checks' = [checks EXCEPT ![n][c] = IF ok THEN "success" ELSE "failure"]
    /\ events' = events \cup {Event("check_run.completed", <<n>>, NULL, c, ok)}
    /\ UNCHANGED <<store, upstream, fork, required, config, syncer, reactor>>

\* A person closes an open tracking issue.
HumanClosesIssue ==
  \E n \in Numbers :
    /\ fork[n].kind = "issue" /\ fork[n].state = "open"
    /\ fork' = [fork EXCEPT ![n].state = "closed"]
    /\ events' = events \cup {IssueClosedEvent(n)}
    /\ UNCHANGED <<store, upstream, checks, required, config, syncer, reactor>>

\* A person closes an open sync pull request without merging it.
HumanClosesPR ==
  \E n \in Numbers :
    /\ IsOpenPR(n)
    /\ ClosePullRequest(n)
    /\ UNCHANGED <<store, upstream, checks, required, config, syncer, reactor>>

\* --------------------------------------------------------------- Syncer
\* handleForkedBranch returns (or throws into run()'s catch).
SyncerReturn == [SyncerIdle EXCEPT !.queue = syncer.queue]

\* Syncer.run: one tick visits every tuple in order.
SyncerRun ==
  /\ syncer.pc = "idle" /\ syncer.queue = <<>>
  /\ syncer' = [syncer EXCEPT !.queue = TupleList]
  /\ UNCHANGED <<store, host, reactor>>

\* handleForkedBranch without the look at pendingPR.action.
SyncerGetPendingPR_IgnoresBlocked ==
  /\ syncer.pc = "idle" /\ syncer.queue # <<>>
  /\ LET t == Head(syncer.queue)
     IN syncer' = [SyncerIdle EXCEPT !.queue = Tail(syncer.queue),
                                     !.tuple = t,
                                     !.pendingPR = getPendingPR(t),
                                     !.pc = "getLastHandledPR"]
  /\ UNCHANGED <<store, host, reactor>>

\* handleForkedBranch: getPendingPR, return when the branch is blocked.
SyncerGetPendingPR ==
  /\ syncer.pc = "idle" /\ syncer.queue # <<>>
  /\ LET t == Head(syncer.queue)
         pendingPR == getPendingPR(t)
     IN IF \E r \in pendingPR : r.action = Blocked
        THEN syncer' = [SyncerIdle EXCEPT !.queue = Tail(syncer.queue)]
        ELSE syncer' = [SyncerIdle EXCEPT !.queue = Tail(syncer.queue),
                                          !.tuple = t,
                                          !.pendingPR = pendingPR,
                                          !.pc = "getLastHandledPR"]
  /\ UNCHANGED <<store, host, reactor>>

\* getLastHandledPR whose answer is not looked at: every visit starts the
\* cursor again.
SyncerGetLastHandledPR_AlwaysBootstraps ==
  /\ syncer.pc = "getLastHandledPR"
  /\ syncer' = [syncer EXCEPT
                  !.lastHandledPR = getLastHandledPR(syncer.tuple),
                  !.pc = "getLatestPRID"]
  /\ UNCHANGED <<store, host, reactor>>

SyncerGetLastHandledPR ==
  /\ syncer.pc = "getLastHandledPR"
  /\ LET lastHandledPR == getLastHandledPR(syncer.tuple)
     IN syncer' = [syncer EXCEPT
                     !.lastHandledPR = lastHandledPR,
                     !.pc = IF lastHandledPR = NoCursor
                            THEN "getLatestPRID" ELSE "getMergedPRIDs"]
  /\ UNCHANGED <<store, host, reactor>>

\* The first visit starts the cursor at 0 whatever the upstream repo holds.
SyncerGetLatestPRID_Zero ==
  /\ syncer.pc = "getLatestPRID"
  /\ syncer' = [syncer EXCEPT !.lastHandledPR = 0,
                              !.pc = "setLastHandledPR"]
  /\ UNCHANGED <<store, host, reactor>>

\* First visit of the tuple: the latest merged upstream PR, 0 when none.
SyncerGetLatestPRID ==
  /\ syncer.pc = "getLatestPRID"
  /\ syncer' = [syncer EXCEPT !.lastHandledPR = getLatestPRID,
                              !.pc = "setLastHandledPR"]
  /\ UNCHANGED <<store, host, reactor>>

SyncerSetLastHandledPR ==
  /\ syncer.pc = "setLastHandledPR"
  /\ last_handled_prs' = setLastHandledPR(last_handled_prs,
                            TupleKey(syncer.tuple), syncer.lastHandledPR)
  /\ syncer' = SyncerReturn
  /\ UNCHANGED <<pending_prs, host, reactor>>

\* A comparison that never finds the row up to date.
Covers_Never(pendingPR, prIDs) == FALSE

\* pendingPR.prID && same length && every id equal && action == Created
Covers(pendingPR, prIDs) ==
  /\ pendingPR.prID # NULL
  /\ SeqEq(pendingPR.upstreamPRIDs, prIDs)
  /\ pendingPR.action = Created

\* getMergedPRIDs and getBranchToPRIDs, then the decision what to do.
SyncerGetMergedPRIDs ==
  /\ syncer.pc = "getMergedPRIDs"
  /\ LET prsToHandle == getMergedPRIDs(syncer.lastHandledPR)
         prIDs == getBranchToPRIDs(prsToHandle, syncer.tuple.upstreamBranch)
     IN IF prsToHandle = <<>> \/ prIDs = <<>>
        THEN syncer' = SyncerReturn
        ELSE IF syncer.pendingPR = {}
        THEN syncer' = [syncer EXCEPT !.prIDs = prIDs, !.pc = "applyPatches"]
        ELSE IF \E r \in syncer.pendingPR : Covers(r, prIDs)
        THEN syncer' = SyncerReturn
        ELSE syncer' = [syncer EXCEPT !.prIDs = prIDs, !.pc = "closePR"]
  /\ UNCHANGED <<store, host, reactor>>

\* closePR without the look at pr.data.state: the visit always goes on.
SyncerClosePRGet_IgnoresState ==
  /\ syncer.pc = "closePR"
  /\ syncer' = [syncer EXCEPT !.pc = "closePR_update"]
  /\ UNCHANGED <<store, host, reactor>>

\* closePR: pulls.get; an already closed (or merged) PR ends the visit.
SyncerClosePRGet ==
  /\ syncer.pc = "closePR"
  /\ LET pendingPR == CHOOSE r \in syncer.pendingPR : TRUE
     IN IF IsOpenPR(pendingPR.prID)
        THEN syncer' = [syncer EXCEPT !.pc = "closePR_update"]
        ELSE syncer' = SyncerReturn
  /\ UNCHANGED <<store, host, reactor>>

\* closePR: the superseded comment, then pulls.update(state: closed).
SyncerClosePRUpdate ==
  /\ syncer.pc = "closePR_update"
  /\ LET pendingPR == CHOOSE r \in syncer.pendingPR : TRUE
     IN ClosePullRequest(pendingPR.prID)
  /\ syncer' = [syncer EXCEPT !.pc = "deletePendingPR"]
  /\ UNCHANGED <<store, upstream, checks, required, config, reactor>>

SyncerDeletePendingPR ==
  /\ syncer.pc = "deletePendingPR"
  /\ LET pendingPR == CHOOSE r \in syncer.pendingPR : TRUE
     IN pending_prs' = deletePendingPR(pending_prs, pendingPR)
  /\ syncer' = [syncer EXCEPT !.pc = "applyPatches"]
  /\ UNCHANGED <<last_handled_prs, host, reactor>>

\* getPRPatchLocations, getToken, applyPatches: the cherry-picks apply and
\* the new branch is pushed, or git fails.
SyncerApplyPatches ==
  /\ syncer.pc = "applyPatches"
  /\ \E applied \in BOOLEAN :
       syncer' = [syncer EXCEPT !.pc = IF applied THEN "pulls.create"
                                       ELSE "createFailureIssue"]
  /\ UNCHANGED <<store, host, reactor>>

\* issues.create of createFailureIssue.
CreateIssue(n) ==
  /\ n = NextNumber /\ n \in Numbers
  /\ fork' = [fork EXCEPT ![n] = [kind |-> "issue", state |-> "open",
                                  base |-> "", ids |-> <<>>]]

SyncerCreateFailureIssue ==
  /\ syncer.pc = "createFailureIssue"
  /\ \E n \in Numbers :
       /\ CreateIssue(n)
       /\ syncer' = [syncer EXCEPT !.issueID = n, !.pc = "setPendingPR_blocked"]
  /\ UNCHANGED <<store, upstream, checks, required, config, events, reactor>>

\* db.setPendingPR: the row is written unless idx_pending_prs_github rejects it.
WritePendingPR(row) ==
  IF GithubIndexConflict(pending_prs, row)
  THEN UNCHANGED pending_prs
  ELSE pending_prs' = setPendingPR(pending_prs, row)

SyncerSetPendingPRBlocked ==
  /\ syncer.pc = "setPendingPR_blocked"
  /\ WritePendingPR(Row(syncer.tuple, syncer.prIDs, Blocked, NULL,
                        syncer.issueID))
  /\ syncer' = SyncerReturn
  /\ UNCHANGED <<last_handled_prs, host, reactor>>

SyncerPullsCreate ==
  /\ syncer.pc = "pulls.create"
  /\ \E n \in Numbers :
       /\ n = NextNumber
       /\ fork' = [fork EXCEPT ![n] = [kind |-> "pr", state |-> "open",
                                       base |-> syncer.tuple.branch,
                                       ids |-> syncer.prIDs]]
       /\ syncer' = [syncer EXCEPT !.newPR = n, !.pc = "setPendingPR_created"]
  /\ UNCHANGED <<store, upstream, checks, required, config, events, reactor>>

\* The Created row is written before the new PR's number is known.
SyncerSetPendingPRCreated_NoPR ==
  /\ syncer.pc = "setPendingPR_created"
  /\ WritePendingPR(Row(syncer.tuple, syncer.prIDs, Created, NULL, NULL))
  /\ syncer' = [syncer EXCEPT !.pc = "getRequiredChecks"]
  /\ UNCHANGED <<last_handled_prs, host, reactor>>

SyncerSetPendingPRCreated ==
  /\ syncer.pc = "setPendingPR_created"
  /\ WritePendingPR(Row(syncer.tuple, syncer.prIDs, Created, syncer.newPR,
                        NULL))
  /\ syncer' = [syncer EXCEPT !.pc = "getRequiredChecks"]
  /\ UNCHANGED <<last_handled_prs, host, reactor>>

SyncerGetRequiredChecks ==
  /\ syncer.pc = "getRequiredChecks"
  /\ IF required[syncer.tuple.branch] = {}
     THEN syncer' = [syncer EXCEPT !.pc = "mergePR"]
     ELSE syncer' = SyncerReturn
  /\ UNCHANGED <<store, host, reactor>>

\* pulls.merge(pull_number, sha): GitHub merges only an open PR whose head
\* is the given commit; the head of a sync PR is named by the PR's number.
CanMerge(prID, head) == IsOpenPR(prID) /\ head = prID

\* mergePR(client, db, pendingPR, newPR.data.head.sha) with the pendingPR
\* loaded at the start of the visit.  Without one, mergePR throws a
\* TypeError, in its try block and again in its catch block, and run()
\* catches it.  With one, the superseded PR is asked to merge at the new
\* PR's head, which GitHub rejects.
SyncerMergePR ==
  /\ syncer.pc = "mergePR"
  /\ IF syncer.pendingPR = {}
     THEN /\ syncer' = SyncerReturn
          /\ UNCHANGED <<fork, events>>
     ELSE LET pendingPR == CHOOSE r \in syncer.pendingPR : TRUE
          IN IF CanMerge(pendingPR.prID, syncer.newPR)
             THEN /\ fork' = [fork EXCEPT ![pendingPR.prID].state = "merged"]
                  /\ events' = events \cup {PRClosedEvent(pendingPR.prID)}
                  /\ syncer' = SyncerReturn
             ELSE /\ syncer' = [syncer EXCEPT !.pc = "mergePR_createFailureIssue"]
                  /\ UNCHANGED <<fork, events>>
  /\ UNCHANGED <<store, upstream, checks, required, config, reactor>>

SyncerMergePRCreateFailureIssue ==
  /\ syncer.pc = "mergePR_createFailureIssue"
  /\ \E n \in Numbers :
       /\ CreateIssue(n)
       /\ syncer' = [syncer EXCEPT !.issueID = n, !.pc = "mergePR_setPendingPR"]
  /\ UNCHANGED <<store, upstream, checks, required, config, events, reactor>>

\* Only the action is set: the issue is forgotten.
BlockedWith_NoIssue(pendingPR, issueID) == [pendingPR EXCEPT !.action = Blocked]

\* pendingPR.githubIssue = issueID; pendingPR.action = Blocked; setPendingPR
BlockedWith(pendingPR, issueID) ==
  [pendingPR EXCEPT !.githubIssue = issueID, !.action = Blocked]

SyncerMergePRSetPendingPR ==
  /\ syncer.pc = "mergePR_setPendingPR"
  /\ LET pendingPR == CHOOSE r \in syncer.pendingPR : TRUE
     IN WritePendingPR(BlockedWith(pendingPR, syncer.issueID))
  /\ syncer' = SyncerReturn
  /\ UNCHANGED <<last_handled_prs, host, reactor>>

\* The awaits of handleForkedBranch that call GitHub or git.
SyncerHostCalls ==
  {"getLatestPRID", "getMergedPRIDs", "closePR", "closePR_update",
   "applyPatches", "createFailureIssue", "pulls.create", "getRequiredChecks",
   "mergePR_createFailureIssue"}

\* The rejection leaves run(): the tuples still queued are dropped.
SyncerHostError_Propagates ==
  /\ syncer.pc \in SyncerHostCalls
  /\ syncer' = SyncerIdle
  /\ UNCHANGED <<store, host, reactor>>

\* A GitHub call rejects (5xx, rate limit, network): handleForkedBranch
\* throws and run() logs the error and goes on with the next tuple.
SyncerHostError ==
  /\ syncer.pc \in SyncerHostCalls
  /\ syncer' = SyncerReturn
  /\ UNCHANGED <<store, host, reactor>>

\* ------------------------------------------------------------- Reactor
\* One webhook event is handled at a time; a handler that returns or
\* throws leaves the receiver ready for the next event.
ReactorReturn == ReactorIdle

\* issues.closed: getPendingPRByIssue, return when no row has the issue.
ReactorIssuesClosed ==
  /\ reactor.pc = "idle"
  /\ \E e \in events :
       /\ e.type = "issues.closed"
       /\ events' = events \ {e}
       /\ LET found == getPendingPRByIssue(ForkRepo, e.number)
          IN IF found = {}
             THEN reactor' = ReactorReturn
             ELSE \E pendingPR \in found :
                    reactor' = [reactor EXCEPT
                                  !.event = e,
                                  !.pendingPR = {pendingPR},
                                  !.pc = IF pendingPR.prID # NULL
                                         THEN "pulls.update"
                                         ELSE "setLastHandledPR"]
  /\ UNCHANGED <<store, upstream, fork, checks, required, config, syncer>>

\* issues.closed: pulls.update(state: closed) of the row's PR.
ReactorPullsUpdate ==
  /\ reactor.pc = "pulls.update"
  /\ LET pendingPR == CHOOSE r \in reactor.pendingPR : TRUE
     IN ClosePullRequest(pendingPR.prID)
  /\ reactor' = [reactor EXCEPT !.pc = "setLastHandledPR"]
  /\ UNCHANGED <<store, upstream, checks, required, config, syncer>>

\* pull_request.closed without the look at pendingPR.githubIssue.
ReactorPullRequestClosed_NoIssueCheck ==
  /\ reactor.pc = "idle"
  /\ \E e \in events :
       /\ e.type = "pull_request.closed"
       /\ events' = events \ {e}
       /\ LET found == getPendingPRByPRID(ForkRepo, e.number)
          IN IF found = {}
             THEN reactor' = ReactorReturn
             ELSE \E pendingPR \in found :
                    reactor' = [reactor EXCEPT
                                  !.event = e,
                                  !.pendingPR = {pendingPR},
                                  !.pc = "setLastHandledPR"]
  /\ UNCHANGED <<store, upstream, fork, checks, required, config, syncer>>

\* pull_request.closed: getPendingPRByPRID; nothing to do without a row or
\* when the row has a tracking issue.
ReactorPullRequestClosed ==
  /\ reactor.pc = "idle"
  /\ \E e \in events :
       /\ e.type = "pull_request.closed"
       /\ events' = events \ {e}
       /\ LET found == getPendingPRByPRID(ForkRepo, e.number)
          IN IF found = {}
             THEN reactor' = ReactorReturn
             ELSE \E pendingPR \in found :
                    IF pendingPR.githubIssue # NULL
                    THEN reactor' = ReactorReturn
                    ELSE reactor' = [reactor EXCEPT
                                       !.event = e,
                                       !.pendingPR = {pendingPR},
                                       !.pc = "setLastHandledPR"]
  /\ UNCHANGED <<store, upstream, fork, checks, required, config, syncer>>

\* The cursor is set to the first of the row's upstreamPRIDs.
ReactorSetLastHandledPR_First ==
  /\ reactor.pc = "setLastHandledPR"
  /\ LET pendingPR == CHOOSE r \in reactor.pendingPR : TRUE
     IN last_handled_prs' = setLastHandledPR(last_handled_prs, Key(pendingPR),
                                             Head(pendingPR.upstreamPRIDs))
  /\ reactor' = [reactor EXCEPT !.pc = "deletePendingPR"]
  /\ UNCHANGED <<pending_prs, host, syncer>>

\* Both handlers: setLastHandledPR(last of the row's upstreamPRIDs).
ReactorSetLastHandledPR ==
  /\ reactor.pc = "setLastHandledPR"
  /\ LET pendingPR == CHOOSE r \in reactor.pendingPR : TRUE
     IN last_handled_prs' = setLastHandledPR(last_handled_prs, Key(pendingPR),
                                             Last(pendingPR.upstreamPRIDs))
  /\ reactor' = [reactor EXCEPT !.pc = "deletePendingPR"]
  /\ UNCHANGED <<pending_prs, host, syncer>>

ReactorDeletePendingPR ==
  /\ reactor.pc = "deletePendingPR"
  /\ LET pendingPR == CHOOSE r \in reactor.pendingPR : TRUE
     IN pending_prs' = deletePendingPR(pending_prs, pendingPR)
  /\ reactor' = ReactorReturn
  /\ UNCHANGED <<last_handled_prs, host, syncer>>

\* check_run.completed / status: the event is received; its pull requests
\* are then handed to handlePRCIUpdate one after the other.
ReactorCheckRunCompleted ==
  /\ reactor.pc = "idle"
  /\ \E e \in events :
       /\ e.type = "check_run.completed"
       /\ events' = events \ {e}
       /\ reactor' = [reactor EXCEPT !.event = e, !.idx = 1,
                                     !.pc = "handlePRCIUpdate"]
  /\ UNCHANGED <<store, upstream, fork, checks, required, config, syncer>>

\* handlePRCIUpdate answering true for a Blocked row: the event ends there.
ReactorHandlePRCIUpdate_BlockedHandled ==
  /\ reactor.pc = "handlePRCIUpdate"
  /\ IF reactor.idx > Len(reactor.event.prs)
     THEN reactor' = ReactorReturn
     ELSE LET found == getPendingPRByPRID(ForkRepo,
                                          reactor.event.prs[reactor.idx])
          IN IF found = {}
             THEN reactor' = [reactor EXCEPT !.idx = @ + 1]
             ELSE \E pendingPR \in found :
                    IF pendingPR.action = Blocked
                    THEN reactor' = ReactorReturn
                    ELSE reactor' = [reactor EXCEPT
                                       !.pendingPR = {pendingPR},
                                       !.pc = "getRequiredChecks"]
  /\ UNCHANGED <<store, host, syncer>>

\* handlePRCIUpdate: getPendingPRByPRID; false (next PR of the event) when
\* no row has the PR or the row is Blocked.
ReactorHandlePRCIUpdate ==
  /\ reactor.pc = "handlePRCIUpdate"
  /\ IF reactor.idx > Len(reactor.event.prs)
     THEN reactor' = ReactorReturn
     ELSE LET found == getPendingPRByPRID(ForkRepo,
                                          reactor.event.prs[reactor.idx])
          IN IF found = {}
             THEN reactor' = [reactor EXCEPT !.idx = @ + 1]
             ELSE \E pendingPR \in found :
                    IF pendingPR.action = Blocked
                    THEN reactor' = [reactor EXCEPT !.idx = @ + 1]
                    ELSE reactor' = [reactor EXCEPT
                                       !.pendingPR = {pendingPR},
                                       !.pc = "getRequiredChecks"]
  /\ UNCHANGED <<store, host, syncer>>

\* getRequiredChecks without the branch on the failure of the check.
ReactorGetRequiredChecks_NoFailureBranch ==
  /\ reactor.pc = "getRequiredChecks"
  /\ LET pr == reactor.event.prs[reactor.idx]
         requiredChecks == required[fork[pr].base]
     IN IF reactor.event.name \notin requiredChecks
        THEN reactor' = ReactorReturn
        ELSE reactor' = [reactor EXCEPT !.pc = "listForRef"]
  /\ UNCHANGED <<store, host, syncer>>

\* getRequiredChecks without the look at the name of the completed check.
ReactorGetRequiredChecks_AnyName ==
  /\ reactor.pc = "getRequiredChecks"
  /\ IF ~reactor.event.success
     THEN reactor' = [reactor EXCEPT !.pc = "createFailureIssue"]
     ELSE reactor' = [reactor EXCEPT !.pc = "listForRef"]
  /\ UNCHANGED <<store, host, syncer>>

\* handlePRCIUpdate: getRequiredChecks(pr.base.ref); a check that is not
\* required ends the event, a failed one leads to the tracking issue.
ReactorGetRequiredChecks ==
  /\ reactor.pc = "getRequiredChecks"
  /\ LET pr == reactor.event.prs[reactor.idx]
         requiredChecks == required[fork[pr].base]
     IN IF reactor.event.name \notin requiredChecks
        THEN reactor' = ReactorReturn
        ELSE IF ~reactor.event.success
        THEN reactor' = [reactor EXCEPT !.pc = "createFailureIssue"]
        ELSE reactor' = [reactor EXCEPT !.pc = "listForRef"]
  /\ UNCHANGED <<store, host, syncer>>

ReactorCreateFailureIssue ==
  /\ reactor.pc = "createFailureIssue"
  /\ \E n \in Numbers :
       /\ CreateIssue(n)
       /\ reactor' = [reactor EXCEPT !.issueID = n, !.pc = "setPendingPR"]
  /\ UNCHANGED <<store, upstream, checks, required, config, events, syncer>>

\* The handler returns without the setPendingPR call.
ReactorSetPendingPR_Skipped ==
  /\ reactor.pc = "setPendingPR"
  /\ reactor' = ReactorReturn
  /\ UNCHANGED <<store, host, syncer>>

\* handlePRCIUpdate and mergePR: the row that was read, now Blocked with
\* the new issue, is written back.
ReactorSetPendingPR ==
  /\ reactor.pc = "setPendingPR"
  /\ LET pendingPR == CHOOSE r \in reactor.pendingPR : TRUE
     IN WritePendingPR(BlockedWith(pendingPR, reactor.issueID))
  /\ reactor' = ReactorReturn
  /\ UNCHANGED <<last_handled_prs, host, syncer>>

\* The lists are not consulted: the success of the event is enough.
ReactorListForRef_EventOnly ==
  /\ reactor.pc = "listForRef"
  /\ reactor' = [reactor EXCEPT !.pc = "mergePR"]
  /\ UNCHANGED <<store, host, syncer>>

\* handlePRCIUpdate: checks.listForRef, then listCommitStatusesForRef for
\* what is left: merge only when every required check reports success.
ReactorListForRef ==
  /\ reactor.pc = "listForRef"
  /\ LET pr == reactor.event.prs[reactor.idx]
         requiredChecks == required[fork[pr].base]
     IN IF \A c \in requiredChecks : checks[pr][c] = "success"
        THEN reactor' = [reactor EXCEPT !.pc = "mergePR"]
        ELSE reactor' = ReactorReturn
  /\ UNCHANGED <<store, host, syncer>>

\* mergePR that clears the row itself once the PR is merged.
ReactorMergePR_DeletesRow ==
  /\ reactor.pc = "mergePR"
  /\ LET pendingPR == CHOOSE r \in reactor.pendingPR : TRUE
         pr == reactor.event.prs[reactor.idx]
     IN \/ /\ CanMerge(pendingPR.prID, pr)
           /\ fork' = [fork EXCEPT ![pendingPR.prID].state = "merged"]
           /\ events' = events \cup {PRClosedEvent(pendingPR.prID)}
           /\ pending_prs' = deletePendingPR(pending_prs, pendingPR)
           /\ reactor' = ReactorReturn
        \/ /\ reactor' = [reactor EXCEPT !.pc = "createFailureIssue"]
           /\ UNCHANGED <<fork, events, pending_prs>>
  /\ UNCHANGED <<last_handled_prs, upstream, checks, required, config, syncer>>

\* mergePR(client, db, pendingPR, pr.head.sha): pulls.merge with rebase.
\* GitHub may reject the merge of an open PR too (conflict, protection).
ReactorMergePR ==
  /\ reactor.pc = "mergePR"
  /\ LET pendingPR == CHOOSE r \in reactor.pendingPR : TRUE
         pr == reactor.event.prs[reactor.idx]
     IN \/ /\ CanMerge(pendingPR.prID, pr)
           /\ fork' = [fork EXCEPT ![pendingPR.prID].state = "merged"]
           /\ events' = events \cup {PRClosedEvent(pendingPR.prID)}
           /\ reactor' = ReactorReturn
        \/ /\ reactor' = [reactor EXCEPT !.pc = "createFailureIssue"]
           /\ UNCHANGED <<fork, events>>
  /\ UNCHANGED <<store, upstream, checks, required, config, syncer>>

ReactorHostCalls ==
  {"pulls.update", "getRequiredChecks", "createFailureIssue", "listForRef"}

\* A GitHub call rejects: the handler throws and the event is dropped.
ReactorHostError ==
  /\ reactor.pc \in ReactorHostCalls
  /\ reactor' = ReactorReturn
  /\ UNCHANGED <<store, host, syncer>>

\* ----------------------------------------------------------------- Next
Next ==
  \/ UpstreamMerge
  \/ CheckCompletes
  \/ HumanClosesIssue
  \/ HumanClosesPR
  \/ SyncerRun
  \/ SyncerGetPendingPR
  \/ SyncerGetLastHandledPR
  \/ SyncerGetLatestPRID
  \/ SyncerSetLastHandledPR
  \/ SyncerGetMergedPRIDs
  \/ SyncerClosePRGet
  \/ SyncerClosePRUpdate
  \/ SyncerDeletePendingPR
  \/ SyncerApplyPatches
  \/ SyncerCreateFailureIssue
  \/ SyncerSetPendingPRBlocked
  \/ SyncerPullsCreate
  \/ SyncerSetPendingPRCreated
  \/ SyncerGetRequiredChecks
  \/ SyncerMergePR
  \/ SyncerMergePRCreateFailureIssue
  \/ SyncerMergePRSetPendingPR
  \/ SyncerHostError
  \/ ReactorIssuesClosed
  \/ ReactorPullsUpdate
  \/ ReactorPullRequestClosed
  \/ ReactorSetLastHandledPR
  \/ ReactorDeletePendingPR
  \/ ReactorCheckRunCompleted
  \/ ReactorHandlePRCIUpdate
  \/ ReactorGetRequiredChecks
  \/ ReactorCreateFailureIssue
  \/ ReactorSetPendingPR
  \/ ReactorListForRef
  \/ ReactorMergePR
  \/ ReactorHostError

Spec == Init /\ [][Next]_vars

\* ------------------------------------------- one upstream PR, two checks
\* CI reports the checks "dco" and "build"; the fork branch requires "dco"
\* or both.
InitCI ==
  InitWith(SubSeq(BranchMappings, 1, 1), {"dco", "build"},
           {{"dco"}, {"dco", "build"}})

\* The first upstream pull request is merged; no other follows.
UpstreamMergeFirst ==
  \E b \in UpstreamBranches :
    /\ upstream[1] = NotMerged
    /\ upstream' = [upstream EXCEPT ![1] = b]
    /\ UNCHANGED <<store, fork, checks, required, config, events, syncer, reactor>>

\* With required checks the Syncer never merges itself, and with one
\* upstream PR it has nothing to supersede.
NextCI ==
  \/ UpstreamMergeFirst
  \/ CheckCompletes
  \/ HumanClosesIssue
  \/ HumanClosesPR
  \/ SyncerRun
  \/ SyncerGetPendingPR
  \/ SyncerGetLastHandledPR
  \/ SyncerGetLatestPRID
  \/ SyncerSetLastHandledPR
  \/ SyncerGetMergedPRIDs
  \/ SyncerApplyPatches
  \/ SyncerCreateFailureIssue
  \/ SyncerSetPendingPRBlocked
  \/ SyncerPullsCreate
  \/ SyncerSetPendingPRCreated
  \/ SyncerGetRequiredChecks
  \/ SyncerHostError
  \/ ReactorIssuesClosed
  \/ ReactorPullsUpdate
  \/ ReactorPullRequestClosed
  \/ ReactorSetLastHandledPR
  \/ ReactorDeletePendingPR
  \/ ReactorCheckRunCompleted
  \/ ReactorHandlePRCIUpdate
  \/ ReactorGetRequiredChecks
  \/ ReactorCreateFailureIssue
  \/ ReactorSetPendingPR
  \/ ReactorListForRef
  \/ ReactorMergePR
  \/ ReactorHostError

SpecCI == InitCI /\ [][NextCI]_vars

\* Both branch mappings of the fork, visited in the order of run(); one
\* upstream PR.  The second fork branch has no required checks.
InitRun == InitWith(BranchMappings, {"dco"}, {{"dco"}})

NextRun ==
  \/ UpstreamMergeFirst
  \/ CheckCompletes
  \/ HumanClosesIssue
  \/ HumanClosesPR
  \/ SyncerRun
  \/ SyncerGetPendingPR
  \/ SyncerGetLastHandledPR
  \/ SyncerGetLatestPRID
  \/ SyncerSetLastHandledPR
  \/ SyncerGetMergedPRIDs
  \/ SyncerApplyPatches
  \/ SyncerCreateFailureIssue
  \/ SyncerSetPendingPRBlocked
  \/ SyncerPullsCreate
  \/ SyncerSetPendingPRCreated
  \/ SyncerGetRequiredChecks
  \/ SyncerMergePR
  \/ SyncerHostError
  \/ ReactorIssuesClosed
  \/ ReactorPullsUpdate
  \/ ReactorPullRequestClosed
  \/ ReactorSetLastHandledPR
  \/ ReactorDeletePendingPR
  \/ ReactorCheckRunCompleted
  \/ ReactorHandlePRCIUpdate
  \/ ReactorGetRequiredChecks
  \/ ReactorCreateFailureIssue
  \/ ReactorSetPendingPR
  \/ ReactorListForRef
  \/ ReactorMergePR
  \/ ReactorHostError

SpecRun == InitRun /\ [][NextRun]_vars

\* ------------------------------------------- the pending_prs columns
\* A TEXT column is a sequence of characters.  upstream_pr_ids and
\* upstream_authors hold the lists joined with ",".
Digits == <<"0", "1", "2", "3", "4", "5", "6", "7", "8", "9">>
IsDigit(ch) == \E d \in 0..9 : Digits[d + 1] = ch
DigitValue(ch) == CHOOSE d \in 0..9 : Digits[d + 1] = ch

\* String(n) of a non-negative integer, as Array.prototype.join writes it.
RECURSIVE NumberToString(_)
NumberToString(n) ==
  IF n < 10 THEN <<Digits[n + 1]>>
  ELSE NumberToString(n \div 10) \o <<Digits[(n % 10) + 1]>>

\* parseInt of a text without sign or blanks: the value of its leading
\* digits, NaN when there are none.
NaN == -1

RECURSIVE ParseDigits(_, _)
ParseDigits(text, acc) ==
  IF text = <<>> \/ ~IsDigit(Head(text)) THEN acc
  ELSE ParseDigits(Tail(text), acc * 10 + DigitValue(Head(text)))

parseInt(text) ==
  IF text = <<>> \/ ~IsDigit(Head(text)) THEN NaN ELSE ParseDigits(text, 0)

RECURSIVE JoinWith(_, _)
JoinWith(texts, sep) ==
  IF texts = <<>> THEN <<>>
  ELSE IF Len(texts) = 1 THEN texts[1]
  ELSE texts[1] \o sep \o JoinWith(Tail(texts), sep)

\* Array.prototype.join(",")
join(texts) == JoinWith(texts, <<",">>)

\* String.prototype.split(","): the pieces between the commas; the empty
\* text gives one empty piece.
RECURSIVE split(_)
split(text) ==
  IF \E i \in 1..Len(text) : text[i] = ","
  THEN LET i == CHOOSE k \in 1..Len(text) :
                  text[k] = "," /\ \A j \in 1..(k - 1) : text[j] # ","
       IN <<SubSeq(text, 1, i - 1)>> \o split(SubSeq(text, i + 1, Len(text)))
  ELSE <<text>>

\* The parameters of setPendingPR's INSERT, with the lists written without
\* a separator.
SqlRow_NoSeparator(pendingPR) ==
  [repo |-> pendingPR.repo, upstreamRepo |-> pendingPR.upstreamRepo,
   branch |-> pendingPR.branch,
   upstream_pr_ids |->
     JoinWith([i \in DOMAIN pendingPR.upstreamPRIDs |->
                 NumberToString(pendingPR.upstreamPRIDs[i])], <<>>),
   upstream_authors |-> JoinWith(pendingPR.upstreamAuthors, <<>>),
   action |-> pendingPR.action, prID |-> pendingPR.prID,
   githubIssue |-> pendingPR.githubIssue]

\* The parameters of setPendingPR's INSERT: the row as the table holds it.
SqlRow(pendingPR) ==
  [repo |-> pendingPR.repo, upstreamRepo |-> pendingPR.upstreamRepo,
   branch |-> pendingPR.branch,
   upstream_pr_ids |->
     join([i \in DOMAIN pendingPR.upstreamPRIDs |->
             NumberToString(pendingPR.upstreamPRIDs[i])]),
   upstream_authors |-> join(pendingPR.upstreamAuthors),
   action |-> pendingPR.action, prID |-> pendingPR.prID,
   githubIssue |-> pendingPR.githubIssue]

\* The PendingPR object getPendingPR builds from the selected row.
PendingPROf(result) ==
  [repo |-> result.repo, upstreamRepo |-> result.upstreamRepo,
   branch |-> result.branch,
   upstreamPRIDs |->
     LET ids == split(result.upstream_pr_ids)
     IN [i \in DOMAIN ids |-> parseInt(ids[i])],
   upstreamAuthors |-> split(result.upstream_authors),
   action |-> result.action, prID |-> result.prID,
   githubIssue |-> result.githubIssue]

\* The PendingPR objects handed to the Database: one or two upstream PR
\* ids in ascending order, as getMergedPRIDs sorts them, one or two author
\* logins (GitHub logins are letters, digits and hyphens), a Created row
\* with its PR or a Blocked row with its issue.
MaxListLen == 2
DbIDs == {4, 12}
DbLogins == {<<"a">>, <<"b", "-", "c">>}
ListsOf(S) == UNION {[1..k -> S] : k \in 1..MaxListLen}
Ascending(ids) == \A i, j \in DOMAIN ids : i < j => ids[i] < ids[j]

DbPendingPRs ==
  {[repo |-> ForkRepo, upstreamRepo |-> UpstreamRepo, branch |-> t.branch,
    upstreamPRIDs |-> ids, upstreamAuthors |-> authors, action |-> action,
    prID |-> prID, githubIssue |-> githubIssue] :
     t \in {BranchMappings[i] : i \in DOMAIN BranchMappings},
     ids \in {l \in ListsOf(DbIDs) : Ascending(l)},
     authors \in ListsOf(DbLogins),
     action \in {Created, Blocked},
     prID \in {NULL, 1}, githubIssue \in {NULL, 2}}

\* A caller of the Database and its locals: the PendingPR it passed to
\* setPendingPR and what getPendingPR resolved to.  In this specification
\* pending_prs holds the rows as the table holds them.
DbIdle == [pc |-> "idle", pendingPR |-> {}, pendingPRDB |-> {}]

InitDB ==
  /\ pending_prs = {}
  /\ last_handled_prs = {}
  /\ upstream = [id \in UpstreamPRs |-> NotMerged]
  /\ fork = [n \in Numbers |-> NoEntry]
  /\ checks = [n \in Numbers |-> [c \in {"dco"} |-> "none"]]
  /\ required = [b \in ForkBranches |-> {}]
  /\ config = BranchMappings
  /\ events = {}
  /\ syncer = DbIdle
  /\ reactor = ReactorIdle

\* await db.setPendingPR(pendingPR): the upsert, rejected when
\* idx_pending_prs_github already holds the PR and issue for the repo.
DbSetPendingPR ==
  /\ \E pendingPR \in DbPendingPRs :
       /\ (pendingPR.action = Created) =>
            (pendingPR.prID # NULL /\ pendingPR.githubIssue = NULL)
       /\ (pendingPR.action = Blocked) => pendingPR.githubIssue # NULL
       /\ IF GithubIndexConflict(pending_prs, SqlRow(pendingPR))
          THEN /\ UNCHANGED pending_prs
               /\ syncer' = [pc |-> "rejected", pendingPR |-> {pendingPR},
                             pendingPRDB |-> {}]
          ELSE /\ pending_prs' = setPendingPR(pending_prs, SqlRow(pendingPR))
               /\ syncer' = [pc |-> "set", pendingPR |-> {pendingPR},
                             pendingPRDB |-> {}]
  /\ UNCHANGED <<last_handled_prs, host, reactor>>

\* pendingPRDB = await db.getPendingPR(repo, upstreamRepo, branch) for the
\* tuple of the PendingPR just set or deleted.
DbGetPendingPR ==
  /\ syncer.pc \in {"set", "deleted"}
  /\ LET pendingPR == CHOOSE r \in syncer.pendingPR : TRUE
         result == {r \in pending_prs : Key(r) = Key(pendingPR)}
     IN syncer' = [syncer EXCEPT
                     !.pendingPRDB = {PendingPROf(r) : r \in result},
                     !.pc = IF syncer.pc = "set" THEN "set_get"
                            ELSE "deleted_get"]
  /\ UNCHANGED <<store, host, reactor>>

\* await db.deletePendingPR(pendingPR)
DbDeletePendingPR ==
  /\ syncer.pendingPR # {}
  /\ LET pendingPR == CHOOSE r \in syncer.pendingPR : TRUE
     IN pending_prs' = deletePendingPR(pending_prs, SqlRow(pendingPR))
  /\ syncer' = [syncer EXCEPT !.pc = "deleted", !.pendingPRDB = {}]
  /\ UNCHANGED <<last_handled_prs, host, reactor>>

NextDB ==
  \/ DbSetPendingPR
  \/ DbGetPendingPR
  \/ DbDeletePendingPR

SpecDB == InitDB /\ [][NextDB]_vars

\* --------------------------------------- check runs that list two PRs
\* Both branch mappings, each fork branch requiring "dco" and "build".
InitEvents ==
  /\ pending_prs = {}
  /\ last_handled_prs = {}
  /\ upstream = [id \in UpstreamPRs |-> NotMerged]
  /\ fork = [n \in Numbers |-> NoEntry]
  /\ checks = [n \in Numbers |-> [c \in {"dco", "build"} |-> "none"]]
  /\ required = [b \in ForkBranches |-> {"dco", "build"}]
  /\ config = BranchMappings
  /\ events = {}
  /\ syncer = SyncerIdle
  /\ reactor = ReactorIdle

\* A check run completes on a commit that two open fork PRs have as head:
\* check_run.pull_requests lists both.
CheckCompletesShared ==
  \E m, n \in Numbers, c \in CheckNames, ok \in BOOLEAN :
    /\ m # n
    /\ IsOpenPR(m) /\ IsOpenPR(n)
    /\ checks[m][c] = "none" /\ checks[n][c] = "none"
    /\ checks' = [checks EXCEPT
                    ![m][c] = IF ok THEN "success" ELSE "failure",
                    ![n][c] = IF ok THEN "success" ELSE "failure"]
    /\ events' = events \cup
                   {Event("check_run.completed", <<m, n>>, NULL, c, ok)}
    /\ UNCHANGED <<store, upstream, fork, required, config, syncer, reactor>>

NextEvents ==
  \/ UpstreamMerge
  \/ CheckCompletes
  \/ CheckCompletesShared
  \/ SyncerRun
  \/ SyncerGetPendingPR
  \/ SyncerGetLastHandledPR
  \/ SyncerGetLatestPRID
  \/ SyncerSetLastHandledPR
  \/ SyncerGetMergedPRIDs
  \/ SyncerApplyPatches
  \/ SyncerCreateFailureIssue
  \/ SyncerSetPendingPRBlocked
  \/ SyncerPullsCreate
  \/ SyncerSetPendingPRCreated
  \/ SyncerGetRequiredChecks
  \/ ReactorPullRequestClosed
  \/ ReactorSetLastHandledPR
  \/ ReactorDeletePendingPR
  \/ ReactorCheckRunCompleted
  \/ ReactorHandlePRCIUpdate
  \/ ReactorGetRequiredChecks
  \/ ReactorCreateFailureIssue
  \/ ReactorSetPendingPR
  \/ ReactorListForRef
  \/ ReactorMergePR

SpecEvents == InitEvents /\ [][NextEvents]_vars

\* ------------------------------------------- the tuples of one run()
\* In this specification fork is the set of repository names the
\* installation can access, upstream the set of public repository names of
\* the upstream org, and syncer the fields of the one Syncer object that
\* main's loop calls run() on: orgs[org].repos, upstreamOrgRepos[upstreamOrg],
\* the two listings of the last init(), the handleForkedBranch calls still
\* to make in this run and those made.
RepoList == <<"config-policy-controller", "star-wars-quotes">>
RepoNames == {RepoList[i] : i \in DOMAIN RepoList}

InitTuples ==
  /\ pending_prs = {}
  /\ last_handled_prs = {}
  /\ upstream \in SUBSET RepoNames
  /\ fork \in SUBSET RepoNames
  /\ checks = [n \in Numbers |-> [c \in {"dco"} |-> "none"]]
  /\ required = [b \in ForkBranches |-> {}]
  /\ config = BranchMappings
  /\ events = {}
  /\ syncer = [pc |-> "idle", repos |-> {}, upstreamOrgRepos |-> {},
               listed |-> [repos |-> {}, upstreamRepos |-> {}],
               queue |-> <<>>, calls |-> <<>>]
  /\ reactor = ReactorIdle

\* A repository is added to or removed from the installation, or created
\* or deleted in the upstream org.
ReposChange ==
  /\ \E r \in RepoNames :
       \/ /\ fork' = IF r \in fork THEN fork \ {r} ELSE fork \cup {r}
          /\ UNCHANGED upstream
       \/ /\ upstream' = IF r \in upstream THEN upstream \ {r}
                         ELSE upstream \cup {r}
          /\ UNCHANGED fork
  /\ UNCHANGED <<store, checks, required, config, events, syncer, reactor>>

\* for repo of orgs[org].repos: skip when upstreamOrgRepos has no such name;
\* for each entry of branchMappings, sorted: one handleForkedBranch call.
RECURSIVE RunCalls(_, _, _)
RunCalls(i, repos, upstreamOrgRepos) ==
  IF i > Len(RepoList) THEN <<>>
  ELSE (IF RepoList[i] \in repos /\ RepoList[i] \in upstreamOrgRepos
        THEN [k \in DOMAIN config |-> <<RepoList[i], config[k]>>]
        ELSE <<>>)
       \o RunCalls(i + 1, repos, upstreamOrgRepos)

\* run(): await this.init().  init() adds the names of
\* listReposAccessibleToInstallation to orgs[org].repos and
\* getUpstreamRepos() adds the names of listForOrg to upstreamOrgRepos;
\* neither set is emptied first.
RunInit ==
  /\ syncer.pc = "idle"
  /\ LET repos == syncer.repos \cup fork
         upstreamOrgRepos == syncer.upstreamOrgRepos \cup upstream
         calls == RunCalls(1, repos, upstreamOrgRepos)
     IN syncer' = [pc |-> IF calls = <<>> THEN "idle" ELSE "run",
                   repos |-> repos,
                   upstreamOrgRepos |-> upstreamOrgRepos,
                   listed |-> [repos |-> fork, upstreamRepos |-> upstream],
                   queue |-> calls, calls |-> <<>>]
  /\ UNCHANGED <<store, host, reactor>>

\* One pass of the inner loop: handleForkedBranch is called (and resolves
\* or throws, which run() only logs).
RunHandleForkedBranch ==
  /\ syncer.pc = "run"
  /\ syncer' = [syncer EXCEPT
                  !.calls = Append(@, Head(syncer.queue)),
                  !.queue = Tail(@),
                  !.pc = IF Len(syncer.queue) = 1 THEN "idle" ELSE "run"]
  /\ UNCHANGED <<store, host, reactor>>

NextTuples ==
  \/ ReposChange
  \/ RunInit
  \/ RunHandleForkedBranch

SpecTuples == InitTuples /\ [][NextTuples]_vars

\* ------------------------------------------- applyPatches (git.ts)
\* In this specification syncer holds the locals of one applyPatches call
\* (the patches argument, patchFiles, the position in the chain of git
\* commands and how the returned promise settled), upstream the temporary
\* directory with its clone (the patch files applied on the new branch, by
\* index in patches) and fork the branches pushed to the remote.
MaxPatches == 3
PatchTexts == {"", "fix a", "fix b"}
PatchLists == UNION {[1..n -> PatchTexts] : n \in 0..MaxPatches}

TmpDir(exists, cloned, commits) ==
  [exists |-> exists, cloned |-> cloned, commits |-> commits]

InitGit ==
  /\ pending_prs = {}
  /\ last_handled_prs = {}
  /\ upstream = TmpDir(FALSE, FALSE, <<>>)
  /\ fork = <<>>
  /\ checks = [n \in Numbers |-> [c \in {"dco"} |-> "none"]]
  /\ required = [b \in ForkBranches |-> {}]
  /\ config = SubSeq(BranchMappings, 1, 1)
  /\ events = {}
  /\ \E patches \in PatchLists :
       syncer = [pc |-> "dirSync", patches |-> patches, patchFiles |-> <<>>,
                 next |-> 1, settled |-> "pending"]
  /\ reactor = ReactorIdle

\* The catch callbacks: dirObj.removeCallback(), reject(err).
GitReject ==
  /\ upstream' = [upstream EXCEPT !.exists = FALSE]
  /\ syncer' = [syncer EXCEPT !.pc = "done", !.settled = "rejected"]
  /\ UNCHANGED fork

\* The patch files of the non-empty patches, in the order of patches.
PatchFilesOf(patches) ==
  SelectSeq([i \in DOMAIN patches |-> i], LAMBDA i : patches[i] # "")

\* tmp.dirSync and the patches.map that writes the patch files.
GitWritePatches ==
  /\ syncer.pc = "dirSync"
  /\ \/ /\ upstream' = [upstream EXCEPT !.exists = TRUE]
        /\ syncer' = [syncer EXCEPT !.pc = "mkdir",
                                    !.patchFiles = PatchFilesOf(syncer.patches)]
        /\ UNCHANGED fork
     \/ GitReject
  /\ UNCHANGED <<store, checks, required, config, events, reactor>>

\* fs.mkdirSync(gitPath).
GitMkdir ==
  /\ syncer.pc = "mkdir"
  /\ \/ /\ syncer' = [syncer EXCEPT !.pc = "clone"]
        /\ UNCHANGED <<upstream, fork>>
     \/ GitReject
  /\ UNCHANGED <<store, checks, required, config, events, reactor>>

\* clone(remoteURL, gitPath).checkoutBranch(targetBranch, origin/sourceBranch).
GitClone ==
  /\ syncer.pc = "clone"
  /\ \/ /\ upstream' = [upstream EXCEPT !.cloned = TRUE]
        /\ syncer' = [syncer EXCEPT !.pc = "am"]
        /\ UNCHANGED fork
     \/ GitReject
  /\ UNCHANGED <<store, checks, required, config, events, reactor>>

\* One raw(["am", "-3", patchFile]) of the chain: the patch applies, or the
\* chain stops and jumps to the catch callback.
GitAm_ContinuesAfterFailure ==
  /\ syncer.pc = "am"
  /\ syncer.next <= Len(syncer.patchFiles)
  /\ \/ upstream' = [upstream EXCEPT
                       !.commits = Append(@, syncer.patchFiles[syncer.next])]
     \/ UNCHANGED upstream
  /\ syncer' = [syncer EXCEPT !.next = @ + 1]
  /\ UNCHANGED <<fork, store, checks, required, config, events, reactor>>

GitAm ==
  /\ syncer.pc = "am"
  /\ syncer.next <= Len(syncer.patchFiles)
  /\ \/ /\ upstream' = [upstream EXCEPT
                          !.commits = Append(@, syncer.patchFiles[syncer.next])]
        /\ syncer' = [syncer EXCEPT !.next = @ + 1]
        /\ UNCHANGED fork
     \/ GitReject
  /\ UNCHANGED <<store, checks, required, config, events, reactor>>

\* push(["origin", "HEAD"]) at the end of the chain, then the then callback:
\* dirObj.removeCallback(), resolve().
GitPush ==
  /\ syncer.pc = "am"
  /\ syncer.next > Len(syncer.patchFiles)
  /\ \/ /\ fork' = Append(fork, upstream.commits)
        /\ upstream' = [upstream EXCEPT !.exists = FALSE]
        /\ syncer' = [syncer EXCEPT !.pc = "done", !.settled = "resolved"]
     \/ GitReject
  /\ UNCHANGED <<store, checks, required, config, events, reactor>>

NextGit ==
  \/ GitWritePatches
  \/ GitMkdir
  \/ GitClone
  \/ GitAm
  \/ GitPush

SpecGit == InitGit /\ [][NextGit]_vars

\* ------------------------------------------------- closePR (syncer.ts)
\* In this specification syncer holds the locals of one closePR call: the
\* prID argument, the state pulls.get returned, the calls that changed
\* GitHub so far and what the call returned.
PullStates == {"open", "closed", "merged"}

SyncPR(state) ==
  [kind |-> "pr", state |-> state, base |-> BranchMappings[1].branch,
   ids |-> <<1>>]

\* pr.data.state of pulls.get: GitHub reports a merged PR as closed.
PullsGetState(n) == IF fork[n].state = "open" THEN "open" ELSE "closed"

InitClosePR ==
  /\ pending_prs = {}
  /\ last_handled_prs = {}
  /\ upstream = [id \in UpstreamPRs |-> NotMerged]
  /\ fork \in [Numbers -> {SyncPR(s) : s \in PullStates}]
  /\ checks = [n \in Numbers |-> [c \in {"dco"} |-> "none"]]
  /\ required = [b \in ForkBranches |-> {}]
  /\ config = SubSeq(BranchMappings, 1, 1)
  /\ events = {}
  /\ \E prID \in Numbers :
       syncer = [pc |-> "pulls.get", prID |-> prID, pr |-> "",
                 calls |-> <<>>, result |-> "none"]
  /\ reactor = ReactorIdle

\* The webhook receiver merges an open PR, or a person closes it, while
\* closePR is between two awaits.
OthersClosePR ==
  \E n \in Numbers, s \in {"closed", "merged"} :
    /\ IsOpenPR(n)
    /\ fork' = [fork EXCEPT ![n].state = s]
    /\ events' = events \cup {PRClosedEvent(n)}
    /\ UNCHANGED <<store, upstream, checks, required, config, syncer, reactor>>

\* A GitHub call of closePR rejects: closePR throws.
ClosePRThrows ==
  /\ syncer' = [syncer EXCEPT !.pc = "done", !.result = "thrown"]
  /\ UNCHANGED <<fork, events>>

\* pulls.get and the test of pr.data.state, with merged in place of state.
ClosePRGet_TestsMerged ==
  /\ syncer.pc = "pulls.get"
  /\ \/ /\ syncer' = IF fork[syncer.prID].state = "merged"
                     THEN [syncer EXCEPT !.pr = PullsGetState(syncer.prID),
                                         !.pc = "done", !.result = "false"]
                     ELSE [syncer EXCEPT !.pr = PullsGetState(syncer.prID),
                                         !.pc = "createComment"]
        /\ UNCHANGED <<fork, events>>
     \/ ClosePRThrows
  /\ UNCHANGED <<store, upstream, checks, required, config, reactor>>

\* pulls.get and the test of pr.data.state.
ClosePRGet ==
  /\ syncer.pc = "pulls.get"
  /\ \/ /\ LET state == PullsGetState(syncer.prID)
           IN syncer' = IF state = "closed"
                        THEN [syncer EXCEPT !.pr = state, !.pc = "done",
                                            !.result = "false"]
                        ELSE [syncer EXCEPT !.pr = state,
                                            !.pc = "createComment"]
        /\ UNCHANGED <<fork, events>>
     \/ ClosePRThrows
  /\ UNCHANGED <<store, upstream, checks, required, config, reactor>>

\* issues.createComment with the superseded comment.
ClosePRCreateComment ==
  /\ syncer.pc = "createComment"
  /\ \/ /\ syncer' = [syncer EXCEPT !.pc = "pulls.update",
                                    !.calls = Append(@, "createComment")]
        /\ UNCHANGED <<fork, events>>
     \/ ClosePRThrows
  /\ UNCHANGED <<store, upstream, checks, required, config, reactor>>

\* pulls.update(state: closed) and return true.
ClosePRUpdate ==
  /\ syncer.pc = "pulls.update"
  /\ \/ /\ ClosePullRequest(syncer.prID)
        /\ syncer' = [syncer EXCEPT !.pc = "done", !.result = "true",
                                    !.calls = Append(@, "pulls.update")]
     \/ ClosePRThrows
  /\ UNCHANGED <<store, upstream, checks, required, config, reactor>>

NextClosePR ==
  \/ OthersClosePR
  \/ ClosePRGet
  \/ ClosePRCreateComment
  \/ ClosePRUpdate

SpecClosePR == InitClosePR /\ [][NextClosePR]_vars

\* ------------------------------------------ getMergedPRIDs, page by page
\* In this specification upstream is the search feed of merged upstream
\* PRs (created, descending: PR numbers newest first) and syncer holds the
\* locals of one getMergedPRIDs call.
MaxFeedID == 12
PerPage == 10
FeedIDs == 1..MaxFeedID
Feeds == {SortDesc(s) : s \in SUBSET FeedIDs}

\* resp.data.items of search.issuesAndPullRequests(page, per_page: 10).
SearchPage(feed, page) ==
  SubSeq(feed, (page - 1) * PerPage + 1,
         IF page * PerPage < Len(feed) THEN page * PerPage ELSE Len(feed))

InitFeed ==
  /\ pending_prs = {}
  /\ last_handled_prs = {}
  /\ upstream \in Feeds
  /\ fork = [n \in Numbers |-> NoEntry]
  /\ checks = [n \in Numbers |-> [c \in {"dco"} |-> "none"]]
  /\ required = [b \in ForkBranches |-> {}]
  /\ config = SubSeq(BranchMappings, 1, 1)
  /\ events = {}
  /\ \E lastHandledPR \in 0..MaxFeedID :
       syncer = [pc |-> "search", lastHandledPR |-> lastHandledPR,
                 page |-> 1, prIDs |-> {}, result |-> <<>>]
  /\ reactor = ReactorIdle

\* One pass of the while loop with pr.number < lastHandledPR as the test.
FeedFetchPage_Inclusive ==
  /\ syncer.pc = "search"
  /\ LET items == SearchPage(upstream, syncer.page)
         old == {i \in DOMAIN items : items[i] < syncer.lastHandledPR}
         stop == IF old = {} THEN Len(items) + 1
                 ELSE CHOOSE i \in old : \A j \in old : i <= j
         prIDs == syncer.prIDs \cup {items[i] : i \in 1..(stop - 1)}
     IN syncer' = IF items = <<>> \/ old # {}
                  THEN [syncer EXCEPT !.pc = "done", !.prIDs = prIDs,
                                      !.result = SortAsc(prIDs)]
                  ELSE [syncer EXCEPT !.prIDs = prIDs, !.page = @ + 1]
  /\ UNCHANGED <<store, host, reactor>>

\* One pass of the while loop: the search call for the page, the return on
\* an empty page, the for loop over the items with its return on the first
\* pr.number <= lastHandledPR, and page++.
FeedFetchPage ==
  /\ syncer.pc = "search"
  /\ LET items == SearchPage(upstream, syncer.page)
         old == {i \in DOMAIN items : items[i] <= syncer.lastHandledPR}
         stop == IF old = {} THEN Len(items) + 1
                 ELSE CHOOSE i \in old : \A j \in old : i <= j
         prIDs == syncer.prIDs \cup {items[i] : i \in 1..(stop - 1)}
     IN syncer' = IF items = <<>> \/ old # {}
                  THEN [syncer EXCEPT !.pc = "done", !.prIDs = prIDs,
                                      !.result = SortAsc(prIDs)]
                  ELSE [syncer EXCEPT !.prIDs = prIDs, !.page = @ + 1]
  /\ UNCHANGED <<store, host, reactor>>

NextFeed == FeedFetchPage

SpecFeed == InitFeed /\ [][NextFeed]_vars

\* --------------------------------------------- fair scheduling, CI passes
\* One upstream PR, one mapping whose fork branch requires "dco"; CI also
\* reports "build", which is not required.  The Syncer's loop in main keeps calling run(), probot hands every delivered
\* event to its handler, and CI finishes the check with success.  Git and
\* GitHub do what they are asked: the patches apply, no call is rejected,
\* an open PR at the given head is merged, and nobody closes anything by
\* hand.
InitLive == InitWith(SubSeq(BranchMappings, 1, 1), {"dco", "build"}, {{"dco"}})

CheckSucceeds ==
  /\ CheckCompletes
  /\ \A e \in events' \ events : e.success

SyncerApplyPatchesApplied ==
  /\ SyncerApplyPatches
  /\ syncer'.pc = "pulls.create"

ReactorMergePRAccepted ==
  /\ ReactorMergePR
  /\ CanMerge((CHOOSE r \in reactor.pendingPR : TRUE).prID,
              reactor.event.prs[reactor.idx]) => fork' # fork

SyncerLive ==
  \/ SyncerRun
  \/ SyncerGetPendingPR
  \/ SyncerGetLastHandledPR
  \/ SyncerGetLatestPRID
  \/ SyncerSetLastHandledPR
  \/ SyncerGetMergedPRIDs
  \/ SyncerApplyPatchesApplied
  \/ SyncerPullsCreate
  \/ SyncerSetPendingPRCreated
  \/ SyncerGetRequiredChecks

ReactorLive ==
  \/ ReactorPullRequestClosed
  \/ ReactorSetLastHandledPR
  \/ ReactorDeletePendingPR
  \/ ReactorCheckRunCompleted
  \/ ReactorHandlePRCIUpdate
  \/ ReactorGetRequiredChecks
  \/ ReactorListForRef
  \/ ReactorMergePRAccepted

NextLive ==
  \/ UpstreamMergeFirst
  \/ CheckSucceeds
  \/ SyncerLive
  \/ ReactorLive

SpecLive ==
  /\ InitLive
  /\ [][NextLive]_vars
  /\ WF_vars(CheckSucceeds)
  /\ WF_vars(SyncerLive)
  /\ WF_vars(ReactorLive)

\* =================================================================
\* Properties
\* =================================================================
\* The cursor of a tuple in a last_handled_prs table (NoCursor: no row).
CursorOf(table, key) ==
  LET rows == {r \in table : Key(r) = key}
  IN IF rows = {} THEN NoCursor ELSE (CHOOSE r \in rows : TRUE).upstreamPRID

RowsOf(table, key) == {r \in table : Key(r) = key}

\* The PendingPR a process holds in its local variable.
SyncerPendingPR == CHOOSE r \in syncer.pendingPR : TRUE
ReactorPendingPR == CHOOSE r \in reactor.pendingPR : TRUE

SyncerSteps == syncer' # syncer
ReactorSteps == reactor' # reactor

\* C1: in every reachable state the pending_prs table holds at most one
\* row for each tuple (fork repo, upstream repo, fork branch).
C1_AtMostOnePendingPRPerTuple ==
  \A r1, r2 \in pending_prs : Key(r1) = Key(r2) => r1 = r2

\* C1 witness: the Reactor has written a Blocked row over the Created row
\* of the tuple (the row keeps the PR and gained the issue).
C1_Witness ==
  \E r \in pending_prs :
    r.action = Blocked /\ r.prID # NULL /\ r.githubIssue # NULL

\* C2: in every reachable state every PendingPR row with action Blocked
\* has a non-null github_issue.
C2_BlockedHasIssue ==
  \A r \in pending_prs : r.action = Blocked => r.githubIssue # NULL

\* C2 witness: a row that kept its PR has been written back as Blocked by
\* BlockedWith, and its issue is a tracking issue of the fork repo.
C2_Witness ==
  \E r \in pending_prs :
    /\ r.action = Blocked
    /\ r.prID # NULL
    /\ r.githubIssue \in Numbers
    /\ fork[r.githubIssue].kind = "issue"
    /\ fork[r.prID].kind = "pr"

\* C3: the cursor of a tuple never decreases: no step replaces the
\* last_handled_upstream_pr of a tuple by a lower value.
C3_CursorNeverDecreases ==
  [][\A t \in Tuples :
       CursorOf(last_handled_prs', TupleKey(t))
         >= CursorOf(last_handled_prs, TupleKey(t))]_vars

\* C5: once the row of a tuple is Blocked with tracking issue i, every step
\* other than the end of the issues.closed handler for i leaves that row in
\* the table as it is and opens no new sync PR on the tuple's fork branch.
C5_BlockedStaysUntilIssueClosed ==
  [][\A r \in pending_prs :
       (/\ r.action = Blocked
        /\ ~(/\ reactor.pc = "deletePendingPR"
             /\ reactor.event = IssueClosedEvent(r.githubIssue)))
       => /\ r \in pending_prs'
          /\ \A n \in Numbers :
               (fork[n].kind = "none" /\ fork'[n].kind = "pr")
                 => fork'[n].base # r.branch]_vars

\* What the Syncer knows of its tuple's row when it writes: the row it
\* loaded (before deletePendingPR), the Created row it has just written
\* (in mergePR), no row otherwise.
SyncerObserved ==
  IF syncer.pc = "deletePendingPR" THEN syncer.pendingPR
  ELSE IF syncer.pc = "mergePR_setPendingPR"
  THEN {Row(syncer.tuple, syncer.prIDs, Created, syncer.newPR, NULL)}
  ELSE {}

\* C6: a write to the row of a tuple changes the table only when the
\* writer has observed the row the tuple has at that moment: no write that
\* rests on a stale read overwrites or deletes a row the other process
\* wrote in between.
C6_NoStaleWrite ==
  [][pending_prs' # pending_prs =>
       \/ /\ SyncerSteps
          /\ getPendingPR(syncer.tuple) = SyncerObserved
       \/ /\ ReactorSteps
          /\ RowsOf(pending_prs, Key(ReactorPendingPR)) = reactor.pendingPR]_vars

\* The webhook event the Reactor takes off the queue in this step.
Receives(e) == reactor.pc = "idle" /\ e \in events /\ e \notin events'

\* The Reactor ends a handler of events of the type `type` by its last
\* store call, deletePendingPR.
Completes(type) ==
  reactor.pc = "deletePendingPR" /\ reactor.event.type = type /\ ReactorSteps

\* The handler leaves the cursor at the last upstream PR of the row it
\* loaded and the tuple of that row without a PendingPR row.
AdvancedAndDeleted ==
  /\ CursorOf(last_handled_prs', Key(ReactorPendingPR))
       = Last(ReactorPendingPR.upstreamPRIDs)
  /\ RowsOf(pending_prs', Key(ReactorPendingPR)) = {}

C7_IssueClosedHandler ==
  [][/\ \A e \in events :
          (Receives(e) /\ e.type = "issues.closed")
          => LET found == getPendingPRByIssue(ForkRepo, e.number)
             IN IF found = {}
                THEN reactor' = ReactorReturn /\ UNCHANGED <<store, fork>>
                ELSE /\ reactor'.pendingPR = found
                     /\ reactor'.pc = "pulls.update"
                          <=> (\E r \in found : r.prID # NULL)
                     /\ reactor'.pc \in {"pulls.update", "setLastHandledPR"}
                     /\ UNCHANGED <<store, fork>>
     /\ (reactor.pc = "pulls.update" /\ reactor'.pc = "setLastHandledPR")
        => /\ fork'[ReactorPendingPR.prID].state = "closed"
           /\ \A n \in Numbers \ {ReactorPendingPR.prID} : fork'[n] = fork[n]
     /\ (/\ reactor.pc \in {"setLastHandledPR", "deletePendingPR"}
         /\ reactor.event.type = "issues.closed"
         /\ ReactorSteps)
        => fork' = fork
     /\ Completes("issues.closed") => AdvancedAndDeleted]_vars

\* C7 witness: the handler of a closed issue has closed the PR of the
\* Blocked row, which holds more than one upstream PR, has set the cursor
\* and is about to delete the row.
C7_Witness ==
  /\ reactor.pc = "deletePendingPR"
  /\ reactor.event.type = "issues.closed"
  /\ ReactorPendingPR.prID # NULL
  /\ fork[ReactorPendingPR.prID].state = "closed"
  /\ Len(ReactorPendingPR.upstreamPRIDs) > 1
  /\ ReactorPendingPR \in pending_prs

\* C8: the pull_request.closed handler for PR p: without a row with
\* pr_id = p it returns and the store is unchanged; with a row that has no
\* issue it ends with the cursor at last(upstream_pr_ids) of the row and
\* no PendingPR row left for the tuple.
C8_PullRequestClosedHandler ==
  [][/\ \A e \in events :
          (/\ Receives(e)
           /\ e.type = "pull_request.closed"
           /\ getPendingPRByPRID(ForkRepo, e.number) = {})
          => reactor' = ReactorReturn /\ UNCHANGED store
     /\ \A e \in events :
          \A r \in getPendingPRByPRID(ForkRepo, e.number) :
            (/\ Receives(e)
             /\ e.type = "pull_request.closed"
             /\ r.githubIssue = NULL)
            => /\ reactor'.pendingPR = {r}
               /\ reactor'.event = e
               /\ UNCHANGED store
     /\ (/\ reactor.pc = "setLastHandledPR"
         /\ reactor.event.type = "pull_request.closed"
         /\ ReactorSteps)
        => /\ reactor'.pc = "deletePendingPR"
           /\ reactor'.pendingPR = reactor.pendingPR
     /\ Completes("pull_request.closed")
        => AdvancedAndDeleted /\ reactor' = ReactorReturn]_vars

\* C8 witness: the sync PR was merged, its pull_request.closed event is
\* being handled, and the cursor has been moved up to the last upstream PR
\* of the row that is about to be deleted.
C8_Witness ==
  /\ reactor.pc = "deletePendingPR"
  /\ reactor.event.type = "pull_request.closed"
  /\ fork[reactor.event.number].state = "merged"
  /\ ReactorPendingPR \in pending_prs
  /\ ReactorPendingPR.githubIssue = NULL
  /\ getLastHandledPR([branch |-> ReactorPendingPR.branch])
       = Last(ReactorPendingPR.upstreamPRIDs)

\* C9: the pull_request.closed handler for a PR whose row has a non-null
\* github_issue returns at once: the PendingPR rows and the cursors are
\* exactly as before.
C9_PullRequestClosedWithIssue ==
  [][\A e \in events :
       \A r \in getPendingPRByPRID(ForkRepo, e.number) :
         (/\ Receives(e)
          /\ e.type = "pull_request.closed"
          /\ r.githubIssue # NULL)
         => /\ reactor' = ReactorReturn
            /\ pending_prs' = pending_prs
            /\ last_handled_prs' = last_handled_prs]_vars

\* C9 witness: the PR of a Blocked row has been closed and its
\* pull_request.closed event is the next the Reactor can take.
C9_Witness ==
  /\ reactor.pc = "idle"
  /\ \E r \in pending_prs :
       /\ r.githubIssue # NULL
       /\ r.prID # NULL
       /\ PRClosedEvent(r.prID) \in events
       /\ fork[r.prID].state = "closed"

\* The Reactor handles the failure of a required check of the PR of the
\* Created row it loaded.
HandlesRequiredFailure ==
  /\ reactor.event.type = "check_run.completed"
  /\ ~reactor.event.success
  /\ reactor.pc \in {"getRequiredChecks", "createFailureIssue", "setPendingPR"}
  /\ reactor.event.name \in required[fork[reactor.event.prs[reactor.idx]].base]
  /\ ReactorSteps

\* C10: a failed required check of the PR of a Created row: the handler
\* creates a tracking issue and writes the row back as Blocked with that
\* issue and with the pr_id and upstream_pr_ids it had; the cursor stays
\* and at no point is the PR merged or a merge attempted.
C10_RequiredCheckFailure ==
  [][HandlesRequiredFailure =>
       /\ ReactorPendingPR.action = Created
       /\ last_handled_prs' = last_handled_prs
       /\ reactor'.pc # "mergePR"
       /\ \A n \in Numbers : fork'[n].state = "merged" => fork[n].state = "merged"
       /\ reactor.pc = "getRequiredChecks"
            => /\ reactor'.pc \in {"createFailureIssue", "idle"}
               /\ pending_prs' = pending_prs /\ fork' = fork
       /\ (reactor.pc = "createFailureIssue" /\ reactor'.pc # "idle")
            => /\ reactor'.pc = "setPendingPR"
               /\ fork[reactor'.issueID].kind = "none"
               /\ fork'[reactor'.issueID] =
                    [NoEntry EXCEPT !.kind = "issue", !.state = "open"]
               /\ pending_prs' = pending_prs
       /\ reactor.pc = "setPendingPR"
            => /\ RowsOf(pending_prs', Key(ReactorPendingPR)) =
                    {[ReactorPendingPR EXCEPT !.action = Blocked,
                                              !.githubIssue = reactor.issueID]}
               /\ fork[reactor.issueID].kind = "issue"
               /\ fork' = fork
               /\ reactor' = ReactorReturn]_vars

\* C10 witness: the required check of an open sync PR has failed and the
\* row of the PR is now Blocked with an open tracking issue; the cursor is
\* still below the upstream PRs of the row.
C10_Witness ==
  /\ reactor.pc = "idle"
  /\ \E r \in pending_prs :
       /\ r.action = Blocked
       /\ r.prID # NULL
       /\ IsOpenPR(r.prID)
       /\ \E c \in required[r.branch] : checks[r.prID][c] = "failure"
       /\ fork[r.githubIssue].kind = "issue"
       /\ fork[r.githubIssue].state = "open"
       /\ getLastHandledPR([branch |-> r.branch]) < r.upstreamPRIDs[1]

\* The PR whose CI signal the Reactor is handling, and the required checks
\* of its base branch that are not reported successful.
ReactorPR == reactor.event.prs[reactor.idx]
NotSuccessful(pr) == {c \in required[fork[pr].base] : checks[pr][c] # "success"}

IsBlockedCopy(table, p, issueID) ==
  /\ RowsOf(table, Key(p)) =
       {[p EXCEPT !.action = Blocked, !.githubIssue = issueID]}
  /\ issueID # NULL
  /\ fork[issueID].kind = "issue"

\* C12: when GitHub rejects the rebase merge mergePR asks for, for the
\* Created row mergePR was given, the helper creates a tracking issue and
\* writes that row back as Blocked with the issue and with the pr_id and
\* upstream_pr_ids it had; none of these steps changes a cursor or merges.
C12_MergeRejected ==
  [][/\ (reactor.pc = "mergePR" /\ reactor'.pc # "idle" /\ ReactorSteps)
        => /\ reactor'.pc = "createFailureIssue"
           /\ ReactorPendingPR.action = Created
           /\ UNCHANGED <<pending_prs, last_handled_prs, fork>>
     /\ (/\ reactor.pc = "createFailureIssue" /\ reactor.event.success
         /\ reactor'.pc # "idle" /\ ReactorSteps)
        => /\ reactor'.pc = "setPendingPR"
           /\ fork[reactor'.issueID].kind = "none"
           /\ fork'[reactor'.issueID].kind = "issue"
           /\ UNCHANGED <<pending_prs, last_handled_prs>>
     /\ (reactor.pc = "setPendingPR" /\ reactor.event.success /\ ReactorSteps)
        => /\ IsBlockedCopy(pending_prs', ReactorPendingPR, reactor.issueID)
           /\ UNCHANGED <<last_handled_prs, fork>>
     /\ (syncer.pc = "mergePR" /\ syncer'.pc # "idle" /\ SyncerSteps)
        => /\ syncer'.pc = "mergePR_createFailureIssue"
           /\ SyncerPendingPR.action = Created
           /\ UNCHANGED <<pending_prs, last_handled_prs, fork>>
     /\ (/\ syncer.pc = "mergePR_createFailureIssue" /\ syncer'.pc # "idle"
         /\ SyncerSteps)
        => /\ syncer'.pc = "mergePR_setPendingPR"
           /\ fork'[syncer'.issueID].kind = "issue"
           /\ UNCHANGED <<pending_prs, last_handled_prs>>
     /\ (syncer.pc = "mergePR_setPendingPR" /\ SyncerSteps)
        => /\ IsBlockedCopy(pending_prs', SyncerPendingPR, syncer.issueID)
           /\ UNCHANGED <<last_handled_prs, fork>>]_vars

\* C12 witness: every required check of the open PR succeeded, GitHub
\* rejected the merge, the tracking issue exists and the Created row is
\* about to be written back as Blocked.
C12_Witness ==
  /\ reactor.pc = "setPendingPR"
  /\ reactor.event.success
  /\ ReactorPendingPR \in pending_prs
  /\ IsOpenPR(ReactorPendingPR.prID)
  /\ NotSuccessful(ReactorPendingPR.prID) = {}
  /\ fork[reactor.issueID].state = "open"

\* The tuple the Syncer visits has just been given its first cursor b: it
\* has a cursor, and the fork repo has no sync PR or issue yet.
FirstCursorIs(b) ==
  /\ UsedNumbers = {}
  /\ pending_prs = {}
  /\ \A t \in Tuples : getLastHandledPR(t) = b

NoRowUpTo(b) ==
  \A r \in pending_prs :
    \A i \in 1..Len(r.upstreamPRIDs) : r.upstreamPRIDs[i] > b

\* C13: the visit of a tuple without a cursor reads the highest merged
\* upstream PR number (of any branch, 0 without one), writes it as the
\* cursor and returns; it writes no PendingPR row and creates no fork PR or
\* issue.  From then on no upstream PR up to that first cursor is ever in
\* a PendingPR row.
C13_FirstVisitOnlySetsCursor ==
  /\ [][/\ (syncer.pc = "getLastHandledPR" /\ SyncerSteps
            /\ getLastHandledPR(syncer.tuple) = NoCursor)
           => syncer'.pc = "getLatestPRID" /\ UNCHANGED <<store, fork>>
        /\ (syncer.pc = "getLatestPRID" /\ syncer'.pc # "idle" /\ SyncerSteps)
           => /\ syncer'.pc = "setLastHandledPR"
              /\ syncer'.lastHandledPR = Max(MergedUpstream \cup {0})
              /\ UNCHANGED <<store, fork>>
        /\ (syncer.pc = "setLastHandledPR" /\ SyncerSteps)
           => /\ getLastHandledPR(syncer.tuple)' = syncer.lastHandledPR
              /\ syncer' = SyncerReturn
              /\ UNCHANGED <<pending_prs, fork>>]_vars
  /\ \A b \in 0..MaxUpstreamPR : [](FirstCursorIs(b) => []NoRowUpTo(b))

\* C13 witness: upstream PR 1 was merged into the mapped branch before the
\* first visit, which set the cursor to 1; the row of the tuple holds
\* upstream PR 2 only.
C13_Witness ==
  /\ upstream[1] = BranchMappings[1].upstreamBranch
  /\ \E r \in pending_prs : r.upstreamPRIDs = <<2>>
  /\ getLastHandledPR(BranchMappings[1]) = 1

\* C14: a tuple without a PendingPR row whose fork branch requires no
\* checks: once the sync PR is opened and its Created row written, the
\* Syncer's merge call merges that PR, if it is still open.
C14_NoChecksMergesAtOnce ==
  [][(/\ syncer.pc = "mergePR"
      /\ SyncerSteps
      /\ syncer.pendingPR = {}
      /\ required[syncer.tuple.branch] = {}
      /\ IsOpenPR(syncer.newPR))
     => fork'[syncer.newPR].state = "merged"]_vars

\* C15: when applyPatches fails, the visit creates a tracking issue, writes
\* the row of the tuple as Blocked with pr_id null, that issue and the
\* upstream PRs it tried, opens no fork PR and returns; and while such a
\* row is in the table the cursor of its tuple changes only by the
\* issues.closed handler of its issue.
C15_PatchFailureBlocks ==
  [][/\ (syncer.pc = "applyPatches" /\ SyncerSteps)
        => /\ syncer'.pc \in {"pulls.create", "createFailureIssue", "idle"}
           /\ UNCHANGED <<store, fork>>
     /\ (syncer.pc = "createFailureIssue" /\ syncer'.pc # "idle" /\ SyncerSteps)
        => /\ syncer'.pc = "setPendingPR_blocked"
           /\ fork[syncer'.issueID].kind = "none"
           /\ fork'[syncer'.issueID] =
                [NoEntry EXCEPT !.kind = "issue", !.state = "open"]
           /\ \A n \in Numbers \ {syncer'.issueID} : fork'[n] = fork[n]
           /\ UNCHANGED store
     /\ (syncer.pc = "setPendingPR_blocked" /\ SyncerSteps)
        => /\ getPendingPR(syncer.tuple)' =
                {Row(syncer.tuple, syncer.prIDs, Blocked, NULL, syncer.issueID)}
           /\ syncer' = SyncerReturn
           /\ UNCHANGED <<last_handled_prs, fork>>
     /\ \A r \in pending_prs :
          (/\ r.action = Blocked /\ r.prID = NULL
           /\ ~(/\ reactor.pc = "setLastHandledPR"
                /\ reactor.event = IssueClosedEvent(r.githubIssue)))
          => CursorOf(last_handled_prs', Key(r)) = CursorOf(last_handled_prs, Key(r))]_vars

\* The Created row the Syncer writes for the pull request it has opened.
NewCreatedRow == Row(syncer.tuple, syncer.prIDs, Created, syncer.newPR, NULL)

\* C16: a visit that closed the PR of the old Created row and opened a new
\* PR for the full list of upstream PRs: once it has written the Created
\* row with the new PR and that list, the rest of the visit leaves this row
\* as the row of the tuple.
C16_SupersedeLeavesNewCreatedRow ==
  [][(/\ SyncerSteps
      /\ syncer.pendingPR # {}
      /\ syncer.newPR # NULL
      /\ getPendingPR(syncer.tuple) = {NewCreatedRow})
     => getPendingPR(syncer.tuple)' = {NewCreatedRow}]_vars

\* C17: an exception thrown while one tuple is handled is caught by run():
\* a visit, however it ends, leaves the tuples still to be visited as they
\* were, the idle run then takes the next tuple in order, and a run whose
\* tuples are all done starts again from the whole list.
C17_RunGoesOnAfterException ==
  [][SyncerSteps =>
       /\ syncer.pc # "idle" => syncer'.queue = syncer.queue
       /\ (syncer.pc = "idle" /\ syncer.queue # <<>>) =>
            /\ syncer'.queue = Tail(syncer.queue)
            /\ \/ syncer'.pc = "idle"
               \/ syncer'.tuple = Head(syncer.queue)
       /\ (syncer.pc = "idle" /\ syncer.queue = <<>>) =>
            syncer'.queue = TupleList]_vars

\* The visit of the first tuple ended in getLatestPRID's rejection (it left
\* no cursor behind) and the second tuple is being handled.
C17_Witness ==
  /\ Len(TupleList) = 2
  /\ syncer.pc # "idle"
  /\ syncer.tuple = TupleList[2]
  /\ getLastHandledPR(TupleList[1]) = NoCursor

\* A step of the Syncer that can only be a rejected GitHub call: the call
\* would otherwise have gone on with the visit.
SyncerCallRejected ==
  /\ SyncerSteps
  /\ syncer'.pc = "idle"
  /\ store' = store
  /\ host' = host
  /\ \/ syncer.pc \in SyncerHostCalls \ {"getMergedPRIDs", "closePR", "getRequiredChecks"}
     \/ syncer.pc = "getRequiredChecks" /\ required[syncer.tuple.branch] = {}

\* C18: when a GitHub call of handleForkedBranch is rejected, the visit is
\* aborted with the store as the visit found it: the tuple's row is the one
\* loaded by getPendingPR and its cursor the one loaded by getLastHandledPR.
C18_HostErrorLeavesStore ==
  [][SyncerCallRejected =>
       /\ getPendingPR(syncer.tuple) = syncer.pendingPR
       /\ getLastHandledPR(syncer.tuple) = syncer.lastHandledPR]_vars

\* The upstream PRs merged into the tuple's upstream branch with an id in
\* (c, d].
MergedBetween(t, c, d) ==
  {id \in UpstreamPRs : upstream[id] = t.upstreamBranch /\ c < id /\ id <= d}

\* C19: no upstream PR is silently skipped.  Whenever the cursor of a tuple
\* moves from c to c', it is moved by a Reactor handler holding a PendingPR
\* of that tuple, and every upstream PR merged into the tuple's upstream
\* branch with c < id <= c' is in that PendingPR's upstreamPRIDs.
C19_NoUpstreamPRSkipped ==
  [][\A t \in Tuples :
       LET c == getLastHandledPR(t)
           d == CursorOf(last_handled_prs', TupleKey(t))
       IN (c # NoCursor /\ d # c) =>
            /\ reactor.pc = "setLastHandledPR"
            /\ Key(ReactorPendingPR) = TupleKey(t)
            /\ \A id \in MergedBetween(t, c, d) :
                 \E i \in DOMAIN ReactorPendingPR.upstreamPRIDs :
                   ReactorPendingPR.upstreamPRIDs[i] = id]_vars

C21_CreatedRowAtCreation ==
  [][SyncerSteps =>
       \A r \in pending_prs' \ pending_prs :
         r.action = Created =>
           /\ r.prID # NULL
           /\ r.prID \in Numbers
           /\ fork[r.prID].kind = "pr"
           /\ r.githubIssue = NULL]_vars

\* The Syncer has just written the Created row for the PR it opened.
C21_Witness ==
  /\ syncer.pc = "getRequiredChecks"
  /\ \E r \in pending_prs :
       /\ Key(r) = TupleKey(syncer.tuple)
       /\ r.action = Created
       /\ r.prID = syncer.newPR
       /\ r.githubIssue = NULL

BlockedTupleIsNext ==
  /\ syncer.pc = "idle"
  /\ syncer.queue # <<>>
  /\ \E r \in getPendingPR(Head(syncer.queue)) : r.action = Blocked

\* C23: when handleForkedBranch loads a Blocked row for its tuple it returns
\* at once: the visit is over after that step, and the step changes neither
\* the store (row and cursor) nor anything at GitHub (no PR, no issue, no
\* event).
C23_BlockedTupleIsSkipped ==
  [][(SyncerSteps /\ BlockedTupleIsNext) =>
       /\ syncer'.pc = "idle"
       /\ syncer'.queue = Tail(syncer.queue)
       /\ store' = store
       /\ host' = host]_vars

\* run() has reached a tuple whose row is Blocked by a patch failure and
\* whose issue is still open.
C23_Witness ==
  /\ BlockedTupleIsNext
  /\ \E r \in getPendingPR(Head(syncer.queue)) :
       /\ r.prID = NULL
       /\ fork[r.githubIssue].state = "open"

\* The Reactor's mergePR succeeds in this step.
ReactorMerges ==
  /\ ReactorSteps
  /\ reactor.pc = "mergePR"
  /\ fork[ReactorPR].state = "open"
  /\ fork'[ReactorPR].state = "merged"

CheckNotRequired ==
  /\ reactor.pc = "getRequiredChecks"
  /\ ReactorPendingPR.action = Created
  /\ ReactorPendingPR.prID = ReactorPR
  /\ reactor.event.name \notin required[fork[ReactorPR].base]

\* C25: a completed check whose name is not among the required checks of
\* the fork branch, for the PR of a Created row, ends the handler whatever
\* the check's result: no issue, no merge, nothing changed at GitHub, and
\* pending_prs and last_handled_prs as they were.
C25_NotRequiredCheckIsIgnored ==
  [][(ReactorSteps /\ CheckNotRequired) =>
       /\ reactor' = ReactorReturn
       /\ store' = store
       /\ host' = host]_vars

\* A failed check that is not required, on a branch that requires another.
C25_Witness ==
  /\ CheckNotRequired
  /\ ~reactor.event.success
  /\ required[fork[ReactorPR].base] # {}

\* handlePRCIUpdate is called for a PR of the event whose row is Blocked.
CISignalForBlockedPR ==
  /\ reactor.pc = "handlePRCIUpdate"
  /\ reactor.idx <= Len(reactor.event.prs)
  /\ \E r \in getPendingPRByPRID(ForkRepo, ReactorPR) : r.action = Blocked

\* C26 as stated: a check run naming a PR whose row is Blocked is reported as
\* handled, so the handler ends there, with nothing changed, and a later PR
\* of the event's list is not looked at.
C26_BlockedEndsTheEvent ==
  [][(ReactorSteps /\ CISignalForBlockedPR
        /\ reactor.idx < Len(reactor.event.prs)) =>
       /\ reactor' = ReactorReturn
       /\ store' = store
       /\ host' = host]_vars

\* C26 amended: a check run naming a PR whose row is Blocked is reported as
\* not handled for that PR: the step changes nothing in the store and
\* nothing at GitHub, and the handler goes on with the next PR of the
\* event's list.
C26_BlockedIsNotHandled ==
  [][(ReactorSteps /\ CISignalForBlockedPR) =>
       /\ reactor' = [reactor EXCEPT !.idx = reactor.idx + 1]
       /\ store' = store
       /\ host' = host]_vars

\* The first PR of the event has a Blocked row and the handler is at work
\* on the second PR, which has a Created row.
C26_Witness ==
  /\ reactor.pc = "getRequiredChecks"
  /\ reactor.idx = 2
  /\ \E r \in pending_prs :
       r.prID = reactor.event.prs[1] /\ r.action = Blocked
  /\ ReactorPendingPR.prID = reactor.event.prs[2]
  /\ ReactorPendingPR.action = Created

\* C27: on a fork branch without required checks, mergePR is called with
\* the PendingPR just written (the new PR, the prIDs of this visit), whether
\* or not the tuple had a row before, and a rejected merge writes that
\* PendingPR back as Blocked.
C27_MergeHelperGetsNewPendingPR ==
  [][/\ (SyncerSteps /\ syncer.pc = "mergePR") =>
          syncer.pendingPR = {NewCreatedRow}
     /\ (SyncerSteps /\ syncer.pc = "mergePR_setPendingPR") =>
          \E r \in getPendingPR(syncer.tuple)' :
            /\ r.action = Blocked
            /\ r.prID = syncer.newPR
            /\ r.upstreamPRIDs = syncer.prIDs
            /\ r.githubIssue = syncer.issueID]_vars

\* The visit has loaded a Created row whose upstreamPRIDs are, one by one,
\* the merged upstream PRs beyond the cursor on the tuple's upstream branch.
CreatedRowCoversAll ==
  /\ syncer.pc = "getMergedPRIDs"
  /\ \E r \in syncer.pendingPR :
       /\ r.action = Created
       /\ r.upstreamPRIDs =
            getBranchToPRIDs(getMergedPRIDs(syncer.lastHandledPR),
                             syncer.tuple.upstreamBranch)

\* C28: when the Created row of the tuple lists exactly the merged upstream
\* PRs beyond the cursor, handleForkedBranch returns: the fork PR is not
\* closed, no PR, branch or issue is created, and nothing is written to the
\* store, in that step as in the reads before it.
C28_CoveredTupleIsLeftAlone ==
  [][/\ (SyncerSteps /\ CreatedRowCoversAll) =>
          /\ syncer' = SyncerReturn
          /\ store' = store
          /\ host' = host
     /\ (SyncerSteps /\ syncer.pc \in {"idle", "getLastHandledPR",
                                      "getMergedPRIDs"}) =>
          /\ store' = store
          /\ host' = host]_vars

\* The loaded Created row covers both merged upstream PRs and its fork PR
\* is still open.
C28_Witness ==
  /\ CreatedRowCoversAll
  /\ \E r \in syncer.pendingPR :
       /\ r.upstreamPRIDs = <<1, 2>>
       /\ IsOpenPR(r.prID)
       /\ r \in pending_prs

\* C29: once the cursor of a tuple exists, no Syncer step writes it, on any
\* path of any later visit: a step that changes it is a step of the Reactor
\* in its issues.closed or pull_request.closed handler.
C29_OnlyReactorMovesCursor ==
  [][\A t \in Tuples :
       (/\ getLastHandledPR(t) # NoCursor
        /\ CursorOf(last_handled_prs', TupleKey(t)) # getLastHandledPR(t)) =>
         /\ syncer' = syncer
         /\ reactor.pc = "setLastHandledPR"
         /\ reactor.event.type \in {"issues.closed", "pull_request.closed"}
         /\ Key(ReactorPendingPR) = TupleKey(t)]_vars

\* A later visit has failed to apply the patches and is about to write the
\* Blocked row: the cursor is the one it loaded, behind the merged upstream
\* PRs.
C29_Witness ==
  /\ syncer.pc = "setPendingPR_blocked"
  /\ syncer.lastHandledPR # NoCursor
  /\ getLastHandledPR(syncer.tuple) = syncer.lastHandledPR
  /\ syncer.prIDs # <<>>
  /\ syncer.prIDs[1] > syncer.lastHandledPR

\* The handleForkedBranch calls of the current run, made and still to make.
CallsOfRun == syncer.calls \o syncer.queue

\* C30: in one run, handleForkedBranch is called exactly once for each
\* repository name that init() found both accessible to the installation
\* and in the upstream org, with each branch mapping, and never for a name
\* found on one side only.
C30_RunVisitsEligibleTuplesOnce ==
  LET eligible == syncer.listed.repos \cap syncer.listed.upstreamRepos
  IN /\ \A r \in eligible, k \in DOMAIN config :
          Cardinality({i \in DOMAIN CallsOfRun :
                         CallsOfRun[i] = <<r, config[k]>>}) = 1
     /\ \A i \in DOMAIN CallsOfRun : CallsOfRun[i][1] \in eligible

\* C31: applyPatches called with an empty list of patches rejects and
\* pushes nothing to the fork remote.
C31_EmptyListRejects ==
  (syncer.pc = "done" /\ syncer.patches = <<>>) =>
    /\ syncer.settled = "rejected"
    /\ fork = <<>>

\* C32: the patches are applied strictly in list order, HEAD is pushed only
\* after every patch has applied, a failing patch ends the call (no later
\* patch is attempted, nothing is pushed, the promise rejects), and the
\* temporary directory is gone once the promise has settled, rejected or
\* resolved.
C32_OrderedAllOrNothing ==
  /\ upstream.commits = SubSeq(syncer.patchFiles, 1, Len(upstream.commits))
  /\ syncer.next = Len(upstream.commits) + 1
  /\ fork \in {<<>>, <<syncer.patchFiles>>}
  /\ fork # <<>> => syncer.settled = "resolved"
  /\ syncer.settled = "rejected" => fork = <<>> /\ syncer.pc = "done"
  /\ syncer.settled # "pending" => ~upstream.exists

\* The second of three patches failed to apply after the first applied.
C32_Witness ==
  /\ syncer.settled = "rejected"
  /\ Len(syncer.patchFiles) = 3
  /\ upstream.commits = <<1>>
  /\ ~upstream.exists

\* C33: closePR returns false, with no comment posted and no update sent,
\* exactly when the state it fetched is closed; otherwise the superseded
\* comment is posted before the PR is patched to closed, and it returns
\* true after both.
C33_ClosePRResult ==
  /\ syncer.calls \in {<<>>, <<"createComment">>,
                       <<"createComment", "pulls.update">>}
  /\ syncer.pc = "done" =>
       /\ syncer.result = "false" <=> syncer.pr = "closed"
       /\ syncer.result = "false" => syncer.calls = <<>>
       /\ syncer.result = "true" <=>
            syncer.calls = <<"createComment", "pulls.update">>
       /\ syncer.result = "true" => ~IsOpenPR(syncer.prID)

\* closePR fetched the state of a merged PR and returned false without a
\* comment or an update.
C33_Witness ==
  /\ syncer.pc = "done"
  /\ syncer.result = "false"
  /\ fork[syncer.prID].state = "merged"
  /\ syncer.calls = <<>>

\* The ids of the feed that come before its first id <= cursor.
NewerPrefix(feed, cursor) ==
  LET old == {i \in DOMAIN feed : feed[i] <= cursor}
      stop == IF old = {} THEN Len(feed) + 1
              ELSE CHOOSE i \in old : \A j \in old : i <= j
  IN {feed[i] : i \in 1..(stop - 1)}

C35_OpenSyncPRIsTheRow ==
  [][(SyncerSteps /\ syncer.pc # "idle" /\ syncer'.pc = "idle") =>
       \A n \in Numbers :
         (/\ fork'[n].kind = "pr"
          /\ fork'[n].state = "open"
          /\ fork'[n].base = syncer.tuple.branch) =>
           \E r \in pending_prs' :
             Key(r) = TupleKey(syncer.tuple) /\ r.prID = n]_vars

\* C36: once the merge helper has merged the fork PR of a PendingPR, no
\* later CI signal for that PR calls the merge helper again, creates a
\* tracking issue or moves the PendingPR to Blocked.
C36_NoCISignalActsAfterMerge ==
  (/\ reactor.event.type = "check_run.completed"
   /\ reactor.pc \in {"mergePR", "createFailureIssue", "setPendingPR"})
    => fork[ReactorPR].state # "merged"

\* C37: in every reachable state between two event handlers (a handler
\* writes the cursor and then deletes the row) each id in the
\* upstream_pr_ids of a PendingPR row is greater than the cursor of the
\* row's tuple.
C37_RowIdsAboveCursor ==
  reactor.pc = "idle" =>
    \A t \in Tuples : \A r \in getPendingPR(t) :
      \A i \in DOMAIN r.upstreamPRIDs :
        r.upstreamPRIDs[i] > getLastHandledPR(t)

\* C38: no upstream PR id is in the upstream_pr_ids of two different sync
\* PRs that were both merged into the fork branch.
C38_NoUpstreamPRMergedTwice ==
  \A m, n \in Numbers :
    (/\ m # n
     /\ fork[m].kind = "pr" /\ fork[m].state = "merged"
     /\ fork[n].kind = "pr" /\ fork[n].state = "merged"
     /\ fork[m].base = fork[n].base) =>
      \A i \in DOMAIN fork[m].ids, j \in DOMAIN fork[n].ids :
        fork[m].ids[i] # fork[n].ids[j]

\* C39: under fair scheduling, with every event handled and the required
\* check succeeding, a sync PR the Syncer has opened is eventually merged
\* and its tuple is eventually idle again (no PendingPR row) with the
\* cursor at the last upstream PR of that sync PR, also when the CI signal
\* is handled before the Syncer has written the PendingPR row.
C39_OpenedPREventuallyMerged ==
  \A n \in Numbers :
    IsOpenPR(n) ~>
      /\ fork[n].state = "merged"
      /\ getPendingPR(BranchMappings[1]) = {}
      /\ getLastHandledPR(BranchMappings[1]) = Last(fork[n].ids)

====
